---- MODULE Spec2Model ----
(***************************************************************************)
(* The tile-binning immediate-mode renderer UIRenderer of                  *)
(* present_for_blender, as a state machine.  The repository holds two      *)
(* builds of the class: src/src/shading.ts (addFrame, addLine,             *)
(* addOrientedRect with a pattern index, addGift) and src/unnamed/part_000 *)
(* (addPresent, addRect, addFrame, addLine, addOrientedRect, addQuad,      *)
(* addCircle, the images and their loads).  writeCmdToTiles,               *)
(* pushStyleIfNew, addPrimitiveShape, beginFrame and draw are the same in  *)
(* both.  A renderer is an object of one build and takes the calls of that *)
(* build only.                                                             *)
(*                                                                         *)
(* Representation.                                                         *)
(*  - Numbers are integers: the callers modelled here pass integer pixel   *)
(*    coordinates, so every Rect is integral and `>>` is ToInt32 followed  *)
(*    by a flooring division.                                              *)
(*  - cmdData, the Float32Array shared by commands and styles, is held as  *)
(*    two parts.  cmdData holds the commands that lie in the live region   *)
(*    [0, cmdDataIdx) of the buffer, in buffer order: a command is a       *)
(*    record of the values written for it and the number of floats `len`   *)
(*    it takes, and it starts where the command before it ends.  styleData *)
(*    maps the float offset of every style record ever written to that     *)
(*    record (the style region is never cleared).                          *)
(*  - A Uint16Array is a function on 0..n-1; a store of v keeps v % 2^16,  *)
(*    a store past the end is dropped and a read past the end gives        *)
(*    undefined.  The two large arrays tileCmds and tileCmdRanges are      *)
(*    held by their written prefix (JS index i is element i+1); every      *)
(*    element past the prefix is still 0.                                  *)
(*  - The long arrays cmdData and tileCmds are held as the list of their   *)
(*    runs: <<[v |-> value, n |-> length], ...>>, where neighbouring runs  *)
(*    hold different values.  Flat gives the array element by element.     *)
(*  - cmdsPerTile is a JS Array with holes: a function whose domain is     *)
(*    the set of tile indices that were allocated by beginFrame().         *)
(*  - A method is an operator from the object (the record `this`) and its  *)
(*    arguments to the object after the call; the methods that return a    *)
(*    value or can throw give [this, ret, threw].                          *)
(***************************************************************************)
EXTENDS Integers, Sequences, FiniteSets, TLC

VARIABLES
    viewport,           \* this.viewport {width, height}
    cmdData,            \* live command records of this.cmdData
    styleData,          \* style records of this.cmdData (last texture line)
    cmdDataIdx,         \* this.cmdDataIdx
    textureIDs,         \* this.textureIDs
    textureBundleIDs,   \* this.textureBundleIDs
    loadingTextureIDs,  \* this.loadingTextureIDs
    num_tiles_x, num_tiles_y, num_tiles_n,
    cmdsPerTile,        \* this.cmdsPerTile
    tileCmds,           \* this.tileCmds
    tileCmdRanges,      \* this.tileCmdRanges
    styleDataIdx,       \* this.styleDataIdx
    stateColor, stateLineWidth, stateCorner, stateChanges,
    canvas,             \* gl.canvas: <<width, height>> as beginFrame() reads it
                        \* (offsetWidth, offsetHeight in shading.ts)
    images,             \* the Image objects whose load is in flight
    bundles,            \* per bundle handle: number of urls and the closure's loadedSlices
    nextTextureID,      \* the next handle gl.createTexture() hands out
    redraws,            \* number of times redrawCallback was invoked
    build,              \* the build the renderer was constructed from
    calls,              \* the add* calls the caller may issue
    budget,             \* operations the caller may still issue
    styleLog,           \* the styles the caller asked for since the last draw()
    frame,              \* whether a frame is open and the commands held when it began
    lastOp              \* the last call made on the renderer and its outcome

rvars == <<viewport, cmdData, styleData, cmdDataIdx, textureIDs, textureBundleIDs,
           loadingTextureIDs, num_tiles_x, num_tiles_y, num_tiles_n, cmdsPerTile,
           tileCmds, tileCmdRanges, styleDataIdx, stateColor, stateLineWidth,
           stateCorner, stateChanges>>
vars == <<rvars, canvas, images, bundles, nextTextureID, redraws, build, calls, budget,
          styleLog, frame, lastOp>>

(***************************************************************************)
(* Constants shared with the shader configuration.                         *)
(***************************************************************************)
CMD_LINE == 1
CMD_QUAD == 2
CMD_RECT == 3
CMD_FRAME == 4
CMD_ORI_RECT == 5
CMD_IMAGE == 6
CMD_GIFT == 6

MAX_CMD_BUFFER_LINE == 512
MAX_CMD_DATA == MAX_CMD_BUFFER_LINE * MAX_CMD_BUFFER_LINE
MAX_STYLE_CMDS == MAX_CMD_BUFFER_LINE
MAX_SHAPE_CMDS == MAX_CMD_DATA - MAX_STYLE_CMDS
TILE_SIZE == 5
MAX_TILES == 4 * 1024 - 1
MAX_CMDS_PER_TILE == 64
TILE_CMDS_BUFFER_LINE == 256

styleDataStartIdx == (MAX_CMD_DATA - MAX_STYLE_CMDS) * 4
styleStep == 2 * 4

NUM_SAMPLERS == 5
NUM_BUNDLE_SAMPLERS == 3
SAMPLER_BASE == 5
BUNDLE_SAMPLER_BASE == 10

(***************************************************************************)
(* JavaScript numbers and typed arrays.                                    *)
(***************************************************************************)
Undefined == -1

\* A null or undefined texture handle; gl.createTexture() hands out 1, 2, ...
NullTexture == 0

\* The handles of the two 1px fallback textures the constructor creates.
fallback2DTextureID == -2
fallbackArrayTextureID == -3

Pow2(n) == 2 ^ n

Min(a, b) == IF a < b THEN a ELSE b
Max(a, b) == IF a > b THEN a ELSE b

\* ToInt32 of an integral number in the int32 range, which is every number of
\* this model: the coordinates drawn below are far inside it.
ToInt32(v) == v

\* v >> n on numbers: ToInt32, then a sign-propagating shift.
Shr(v, n) == ToInt32(v) \div Pow2(n)

\* The value a Uint16Array element takes when v is stored (undefined becomes 0).
ToUint16(v) == IF v = Undefined THEN 0 ELSE v % Pow2(16)

Uint16Array(n) == [i \in 0 .. n - 1 |-> 0]

\* a[i] = v on a Uint16Array held as a function on 0..n-1.
U16Store(a, i, v) == IF i \in DOMAIN a THEN [a EXCEPT ![i] = ToUint16(v)] ELSE a

\* a[i] read from a Uint16Array held as a function on 0..n-1.
U16Load(a, i) == IF i \in DOMAIN a THEN a[i] ELSE Undefined

\* Math.round(width * 0.5 + 0.01) for an integral width.
RoundHalfWidth(width) == (width + 1) \div 2

\* Math.sqrt of a perfect square (the sizes drawn below give perfect squares).
Sqrt(n) == CHOOSE r \in 0 .. n : r * r = n

(***************************************************************************)
(* Arrays held as runs of equal elements.                                  *)
(***************************************************************************)
\* The number of elements in runs lo .. hi.
RECURSIVE RunsLenIn(_, _, _)
RunsLenIn(runs, lo, hi) ==
    IF lo > hi THEN 0
    ELSE IF lo = hi THEN runs[lo].n
    ELSE LET mid == (lo + hi) \div 2
         IN RunsLenIn(runs, lo, mid) + RunsLenIn(runs, mid + 1, hi)

RunsLenTo(runs, k) == RunsLenIn(runs, 1, k)

RunsLen(runs) == RunsLenTo(runs, Len(runs))

\* The array followed by n elements v.
RunsPushN(runs, v, n) ==
    IF n <= 0 THEN runs
    ELSE IF Len(runs) > 0 /\ runs[Len(runs)].v = v
    THEN [runs EXCEPT ![Len(runs)].n = @ + n]
    ELSE Append(runs, [v |-> v, n |-> n])

RunsPush(runs, v) == RunsPushN(runs, v, 1)

\* The array without its last element, and that element.
RunsPop(runs) ==
    IF runs[Len(runs)].n = 1 THEN SubSeq(runs, 1, Len(runs) - 1)
    ELSE [runs EXCEPT ![Len(runs)].n = @ - 1]

RunsLast(runs) == runs[Len(runs)].v

\* The array a followed by the array b.
RunsCat(a, b) ==
    IF b = <<>> THEN a
    ELSE IF a = <<>> THEN b
    ELSE IF a[Len(a)].v = b[1].v
    THEN SubSeq(a, 1, Len(a) - 1) \o <<[v |-> b[1].v, n |-> a[Len(a)].n + b[1].n]>> \o Tail(b)
    ELSE a \o b

\* The first k elements.
RunsTake(runs, k) ==
    LET kept == {j \in 1 .. Len(runs) : RunsLenTo(runs, j - 1) < k}
    IN [j \in 1 .. Cardinality(kept) |->
           [v |-> runs[j].v, n |-> Min(runs[j].n, k - RunsLenTo(runs, j - 1))]]

\* The elements after the first k.
RunsDrop(runs, k) ==
    LET gone == {j \in 1 .. Len(runs) : RunsLenTo(runs, j) <= k}
        m == Cardinality(gone)
    IN [j \in 1 .. Len(runs) - m |->
           [v |-> runs[m + j].v, n |-> Min(runs[m + j].n, RunsLenTo(runs, m + j) - k)]]

\* Runs lo .. hi element by element, as a sequence.
RECURSIVE FlatIn(_, _, _)
FlatIn(runs, lo, hi) ==
    IF lo > hi THEN <<>>
    ELSE IF lo = hi THEN [i \in 1 .. runs[lo].n |-> runs[lo].v]
    ELSE LET mid == (lo + hi) \div 2
         IN FlatIn(runs, lo, mid) \o FlatIn(runs, mid + 1, hi)

\* The array element by element, as a sequence.
Flat(runs) == FlatIn(runs, 1, Len(runs))

(***************************************************************************)
(* class Rect                                                              *)
(***************************************************************************)
Rect(x, y, w, h) ==
    [left |-> x, right |-> x + w, top |-> y + h, bottom |-> y, width |-> w, height |-> h]

widen(r, val) ==
    LET l == r.left - val
        b == r.bottom - val
        w == r.width + val * 2
        h == r.height + val * 2
    IN [left |-> l, bottom |-> b, width |-> w, height |-> h, right |-> l + w, top |-> b + h]

encapsulate(r, point) ==
    LET l == Min(r.left, point[1])
        rt == Max(r.right, point[1])
        b == Min(r.bottom, point[2])
        t == Max(r.top, point[2])
    IN [left |-> l, right |-> rt, bottom |-> b, top |-> t, width |-> rt - l, height |-> t - b]

(***************************************************************************)
(* class UIRenderer.  `this` is the record of the object's fields.         *)
(***************************************************************************)
This ==
    [viewport |-> viewport, cmdData |-> cmdData, styleData |-> styleData,
     cmdDataIdx |-> cmdDataIdx, textureIDs |-> textureIDs,
     textureBundleIDs |-> textureBundleIDs, loadingTextureIDs |-> loadingTextureIDs,
     num_tiles_x |-> num_tiles_x, num_tiles_y |-> num_tiles_y, num_tiles_n |-> num_tiles_n,
     cmdsPerTile |-> cmdsPerTile, tileCmds |-> tileCmds, tileCmdRanges |-> tileCmdRanges,
     styleDataIdx |-> styleDataIdx, stateColor |-> stateColor,
     stateLineWidth |-> stateLineWidth, stateCorner |-> stateCorner,
     stateChanges |-> stateChanges]

\* The field initialisers of the class.
NewUIRenderer ==
    [viewport |-> [width |-> 1, height |-> 1], cmdData |-> <<>>, styleData |-> <<>>,
     cmdDataIdx |-> 0, textureIDs |-> <<>>, textureBundleIDs |-> <<>>,
     loadingTextureIDs |-> <<>>,
     num_tiles_x |-> 1, num_tiles_y |-> 1, num_tiles_n |-> 1,
     cmdsPerTile |-> <<>>, tileCmds |-> <<>>, tileCmdRanges |-> <<>>,
     styleDataIdx |-> styleDataStartIdx, stateColor |-> <<-1, -1, -1, -1>>,
     stateLineWidth |-> 1, stateCorner |-> 0, stateChanges |-> 0]

\* The inclusive tile-index range of a bounding box, as writeCmdToTiles computes it.
\* A variant of ShapeTileRange that takes the last column from the left edge.
ShapeTileRange_EndFromLeft(this, bounds) ==
    [start_y |-> Max(Shr(bounds.bottom, TILE_SIZE), 0),
     start_x |-> Max(Shr(bounds.left, TILE_SIZE), 0),
     end_x |-> Min(Shr(bounds.left, TILE_SIZE), this.num_tiles_x - 1),
     end_y |-> Min(Shr(bounds.top, TILE_SIZE), this.num_tiles_y - 1)]

ShapeTileRange(this, bounds) ==
    [start_y |-> Max(Shr(bounds.bottom, TILE_SIZE), 0),
     start_x |-> Max(Shr(bounds.left, TILE_SIZE), 0),
     end_x |-> Min(Shr(bounds.right, TILE_SIZE), this.num_tiles_x - 1),
     end_y |-> Min(Shr(bounds.top, TILE_SIZE), this.num_tiles_y - 1)]

\* The tile_idx values the two nested loops of writeCmdToTiles visit (in
\* increasing order, as x never exceeds num_tiles_x - 1).
ShapeTiles(this, bounds) ==
    LET tr == ShapeTileRange(this, bounds)
    IN {y * this.num_tiles_x + x : x \in tr.start_x .. tr.end_x, y \in tr.start_y .. tr.end_y}

\* The body of the tile loop on one tile's Uint16Array: ++count, then the
\* store of the command index at the new count.
BinIntoTile(tile, w) ==
    LET num_tile_cmds == tile[0] + 1
    IN U16Store(U16Store(tile, 0, num_tile_cmds), num_tile_cmds, w \div 4)

\* A variant of IsFull that keeps no room for the command.
IsFull_NoMargin(w) == w \div 4 > MAX_SHAPE_CMDS

\* The capacity check of writeCmdToTiles (w is a multiple of 4).
IsFull(w) == w \div 4 + 4 > MAX_SHAPE_CMDS

writeCmdToTiles(this, cmdType, bounds) ==
    LET w == this.cmdDataIdx
        tiles == ShapeTiles(this, bounds)
        holes == {ti \in tiles : ti \notin DOMAIN this.cmdsPerTile}
        \* cmdsPerTile[tile_idx] is undefined: `++undefined[0]` throws a TypeError.
        visited == IF holes = {} THEN tiles
                   ELSE {ti \in tiles : \A h \in holes : ti < h}
        binned == [ti \in DOMAIN this.cmdsPerTile |->
                      IF ti \in visited THEN BinIntoTile(this.cmdsPerTile[ti], w)
                      ELSE this.cmdsPerTile[ti]]
        cmd == [len |-> 8, type |-> cmdType,
                styleOffset |-> (this.styleDataIdx - styleDataStartIdx - styleStep) \div 4,
                bounds |-> <<bounds.left, bounds.bottom, bounds.right, bounds.top>>,
                params |-> <<>>]
    IN IF IsFull(w)
       THEN [this |-> this, ret |-> FALSE, threw |-> FALSE]
       ELSE IF holes # {}
       THEN [this |-> [this EXCEPT !.cmdsPerTile = binned], ret |-> FALSE, threw |-> TRUE]
       ELSE [this |-> [this EXCEPT !.cmdsPerTile = binned,
                                   !.cmdData = RunsPush(this.cmdData, cmd),
                                   !.cmdDataIdx = w + 8],
             ret |-> TRUE, threw |-> FALSE]

\* Every caller passes numbers for lineWidth and corner (addPrimitiveShape
\* types them `number`), so `x !== null` is true and `x ?? d` is x.
\* A variant of StyleIsNew that does not compare the line width.
StyleIsNew_IgnoresLineWidth(this, color, lineWidth, corner) ==
    \/ ~(\A i \in 1 .. 4 : this.stateColor[i] = color[i])
    \/ this.stateCorner # corner

StyleIsNew(this, color, lineWidth, corner) ==
    \/ ~(\A i \in 1 .. 4 : this.stateColor[i] = color[i])
    \/ this.stateLineWidth # lineWidth
    \/ this.stateCorner # corner

\* A variant of StyleWriteIdx that never wraps.
StyleWriteIdx_NoWrap(sw) == sw

\* The float offset pushStyleIfNew writes the style record at.
StyleWriteIdx(sw) ==
    IF (sw - styleDataStartIdx) \div 4 + 2 > MAX_STYLE_CMDS THEN styleDataStartIdx ELSE sw

\* A variant of pushStyleIfNew that writes no record over one already written.
pushStyleIfNew_KeepsRecord(this, color, lineWidth, corner) ==
    IF StyleIsNew(this, color, lineWidth, corner)
    THEN LET sw == StyleWriteIdx(this.styleDataIdx)
             style == [lineWidth |-> lineWidth, corner |-> corner, color |-> color]
         IN [this EXCEPT !.stateColor = color,
                         !.stateLineWidth = lineWidth,
                         !.stateCorner = corner,
                         !.stateChanges = this.stateChanges + 1,
                         !.styleData = [o \in DOMAIN this.styleData \cup {sw} |->
                                           IF o \in DOMAIN this.styleData
                                           THEN this.styleData[o] ELSE style],
                         !.styleDataIdx = sw + 8]
    ELSE this

pushStyleIfNew(this, color, lineWidth, corner) ==
    IF StyleIsNew(this, color, lineWidth, corner)
    THEN LET sw == StyleWriteIdx(this.styleDataIdx)
             style == [lineWidth |-> lineWidth, corner |-> corner, color |-> color]
         IN [this EXCEPT !.stateColor = color,
                         !.stateLineWidth = lineWidth,
                         !.stateCorner = corner,
                         !.stateChanges = this.stateChanges + 1,
                         !.styleData = [o \in DOMAIN this.styleData \cup {sw} |->
                                           IF o = sw THEN style ELSE this.styleData[o]],
                         !.styleDataIdx = sw + 8]
    ELSE this

\* A variant of IsClipped without the test of the top edge.
IsClipped_NoTopTest(this, bounds) ==
    \/ bounds.right < 0
    \/ bounds.left > this.viewport.width
    \/ bounds.bottom > this.viewport.height

\* The clip test of addPrimitiveShape.
IsClipped(this, bounds) ==
    \/ bounds.right < 0
    \/ bounds.left > this.viewport.width
    \/ bounds.top < 0
    \/ bounds.bottom > this.viewport.height

\* A variant of addPrimitiveShape that pushes no style for a shape the
\* command buffer has no room for.
addPrimitiveShape_ChecksRoomFirst(this, cmdType, bounds, color, lineWidth, corner) ==
    IF IsClipped(this, bounds) \/ IsFull(this.cmdDataIdx)
    THEN [this |-> this, ret |-> FALSE, threw |-> FALSE]
    ELSE writeCmdToTiles(pushStyleIfNew(this, color, lineWidth, corner), cmdType, bounds)

addPrimitiveShape(this, cmdType, bounds, color, lineWidth, corner) ==
    IF IsClipped(this, bounds)
    THEN [this |-> this, ret |-> FALSE, threw |-> FALSE]
    ELSE writeCmdToTiles(pushStyleIfNew(this, color, lineWidth, corner), cmdType, bounds)

\* A variant of WriteShapeParams that does not step over the unused slots.
WriteShapeParams_NoSkip(r, written, skip) ==
    IF r.threw \/ ~r.ret THEN r
    ELSE LET this == r.this
             cmd == RunsLast(this.cmdData)
             k == Len(written)
         IN [r EXCEPT !.this = [this EXCEPT !.cmdData =
                                               RunsPush(RunsPop(this.cmdData),
                                                        [cmd EXCEPT !.params = written,
                                                                    !.len = 8 + k]),
                                            !.cmdDataIdx = this.cmdDataIdx + k]]

\* The writes `this.cmdData[w++] = v` an add* function makes after a successful
\* addPrimitiveShape: the values `written`, then `skip` floats left as they
\* were, then `this.cmdDataIdx = w`.
WriteShapeParams(r, written, skip) ==
    IF r.threw \/ ~r.ret THEN r
    ELSE LET this == r.this
             cmd == RunsLast(this.cmdData)
             k == Len(written) + skip
         IN [r EXCEPT !.this = [this EXCEPT !.cmdData =
                                               RunsPush(RunsPop(this.cmdData),
                                                        [cmd EXCEPT !.params = written,
                                                                    !.len = 8 + k]),
                                            !.cmdDataIdx = this.cmdDataIdx + k]]

addRect(this, left, top, width, height, color, cornerWidth) ==
    addPrimitiveShape(this, CMD_RECT, Rect(left, top, width, height), color, 0, cornerWidth)

\* The parameters pattern and color2 are not used.
addPresent(this, p1, radius, pattern, color, color2, cornerWidth) ==
    addPrimitiveShape(this, CMD_RECT,
                      Rect(p1[1] - radius, p1[2] - radius, radius * 2, radius * 2),
                      color, 0, cornerWidth)

\* A circle is a rectangle with very rounded corners.
addCircle(this, p1, radius, color) ==
    LET bounds == widen(Rect(p1[1], p1[2], 0, 0), radius)
    IN addRect(this, bounds.left, bounds.bottom, bounds.width, bounds.height, color, radius)

addFrame(this, left, bottom, width, height, lineWidth, color, cornerWidth) ==
    addPrimitiveShape(this, CMD_FRAME, Rect(left, bottom, width, height), color,
                      lineWidth, cornerWidth)

LineBounds(p1, p2, width) ==
    widen(encapsulate(Rect(p1[1], p1[2], 0, 0), p2), RoundHalfWidth(width))

addLine(this, p1, p2, width, color) ==
    WriteShapeParams(addPrimitiveShape(this, CMD_LINE, LineBounds(p1, p2, width), color, width, 0),
                     <<p1[1], p1[2], p2[1], p2[2]>>, 0)

\* width and height are even, so width * 0.5 is integral.
OrientedBounds(pos, width, height) ==
    LET halfWidth == width \div 2 + 1
        halfHeight == height \div 2 + 1
    IN widen(Rect(pos[1], pos[2], 0, 0), Sqrt(halfWidth * halfWidth + halfHeight * halfHeight))

\* addOrientedRect of shading.ts: the pattern index is the seventh parameter
\* written and one float is stepped over.
addOrientedRect(this, pos, ori, width, height, color, patternIdx) ==
    WriteShapeParams(addPrimitiveShape(this, CMD_ORI_RECT, OrientedBounds(pos, width, height),
                                       color, 0, 0),
                     <<pos[1], pos[2], ori[1], ori[2], width, height, patternIdx>>, 1)

\* addOrientedRect of part_000: no pattern index, two floats are stepped over.
addOrientedRect_part_000(this, pos, ori, width, height, color) ==
    WriteShapeParams(addPrimitiveShape(this, CMD_ORI_RECT, OrientedBounds(pos, width, height),
                                       color, 0, 0),
                     <<pos[1], pos[2], ori[1], ori[2], width, height>>, 2)

QuadBounds(p1, p2, p3, p4) ==
    encapsulate(encapsulate(encapsulate(Rect(p1[1], p1[2], 0, 0), p2), p3), p4)

addQuad(this, p1, p2, p3, p4, color) ==
    WriteShapeParams(addPrimitiveShape(this, CMD_QUAD, QuadBounds(p1, p2, p3, p4), color, 0, 0),
                     <<p1[1], p1[2], p2[1], p2[2], p3[1], p3[2], p4[1], p4[2]>>, 0)

addGift(this, pos, ori, width, height, tierIdx) ==
    WriteShapeParams(addPrimitiveShape(this, CMD_GIFT, OrientedBounds(pos, width, height),
                                       this.stateColor, this.stateLineWidth, this.stateCorner),
                     <<pos[1], pos[2], ori[1], ori[2], tierIdx>>, 3)

\* Array.prototype.indexOf on a list held as a sequence: the JS index, or -1.
IndexOf(list, x) ==
    IF \E i \in 1 .. Len(list) : list[i] = x
    THEN (CHOOSE i \in 1 .. Len(list) : list[i] = x /\ \A j \in 1 .. i - 1 : list[j] # x) - 1
    ELSE -1

\* A variant of pushTextureID that does not look the handle up in the list.
pushTextureID_NoLookup(this, textureID, texturesToDraw) ==
    IF textureID = NullTexture
    THEN [list |-> texturesToDraw, idx |-> -2]
    ELSE IF IndexOf(this.loadingTextureIDs, textureID) # -1
    THEN [list |-> texturesToDraw, idx |-> -1]
    ELSE [list |-> Append(texturesToDraw, textureID), idx |-> Len(texturesToDraw)]

\* A variant of pushTextureID that registers a handle that is still loading.
pushTextureID_PushesLoading(this, textureID, texturesToDraw) ==
    IF textureID = NullTexture
    THEN [list |-> texturesToDraw, idx |-> -2]
    ELSE IF IndexOf(texturesToDraw, textureID) # -1
    THEN [list |-> texturesToDraw, idx |-> IndexOf(texturesToDraw, textureID)]
    ELSE IF IndexOf(this.loadingTextureIDs, textureID) # -1
    THEN [list |-> Append(texturesToDraw, textureID), idx |-> -1]
    ELSE [list |-> Append(texturesToDraw, textureID), idx |-> Len(texturesToDraw)]

\* texturesToDraw is one of the two request lists of `this`; the list after
\* the call is returned with the index.
pushTextureID(this, textureID, texturesToDraw) ==
    IF textureID = NullTexture
    THEN [list |-> texturesToDraw, idx |-> -2]
    ELSE IF IndexOf(texturesToDraw, textureID) # -1
    THEN [list |-> texturesToDraw, idx |-> IndexOf(texturesToDraw, textureID)]
    ELSE IF IndexOf(this.loadingTextureIDs, textureID) # -1
    THEN [list |-> texturesToDraw, idx |-> -1]
    ELSE [list |-> Append(texturesToDraw, textureID), idx |-> Len(texturesToDraw)]

addImageInternal(this, left, top, width, height, samplerIdx, slice, cornerWidth, alpha) ==
    WriteShapeParams(addPrimitiveShape(this, CMD_IMAGE, Rect(left, top, width, height),
                                       <<1, 1, 1, alpha>>, 0, cornerWidth),
                     <<samplerIdx, slice>>, 2)

\* A variant of ImageSamplerIdx without the test of the sampler budget.
ImageSamplerIdx_NoBudget(textureRequestIdx, numRequested) ==
    IF textureRequestIdx < 0 THEN textureRequestIdx
    ELSE SAMPLER_BASE + textureRequestIdx

\* The sampler index addImage resolves for a request index, given the length
\* of the request list after the request.
ImageSamplerIdx(textureRequestIdx, numRequested) ==
    IF textureRequestIdx < 0 THEN textureRequestIdx
    ELSE IF numRequested >= NUM_SAMPLERS THEN -2
    ELSE SAMPLER_BASE + textureRequestIdx

\* A variant of addImage that requests no texture for an image out of view.
addImage_CullsFirst(this, left, top, width, height, textureID, cornerWidth, alpha) ==
    LET req == pushTextureID(this, textureID, this.textureIDs)
        samplerIdx == ImageSamplerIdx(req.idx, Len(req.list))
    IN IF IsClipped(this, Rect(left, top, width, height))
       THEN [this |-> this, ret |-> FALSE, threw |-> FALSE]
       ELSE addImageInternal([this EXCEPT !.textureIDs = req.list], left, top, width, height,
                             samplerIdx, 0, cornerWidth, alpha)

addImage(this, left, top, width, height, textureID, cornerWidth, alpha) ==
    LET req == pushTextureID(this, textureID, this.textureIDs)
        samplerIdx == ImageSamplerIdx(req.idx, Len(req.list))
    IN addImageInternal([this EXCEPT !.textureIDs = req.list], left, top, width, height,
                        samplerIdx, 0, cornerWidth, alpha)

BundleSamplerIdx(textureRequestIdx, numRequested) ==
    IF textureRequestIdx < 0 THEN textureRequestIdx
    ELSE IF numRequested >= NUM_BUNDLE_SAMPLERS THEN -2
    ELSE BUNDLE_SAMPLER_BASE + textureRequestIdx

addImageFromBundle(this, left, top, width, height, textureID, slice, cornerWidth, alpha) ==
    LET req == pushTextureID(this, textureID, this.textureBundleIDs)
        samplerIdx == BundleSamplerIdx(req.idx, Len(req.list))
    IN addImageInternal([this EXCEPT !.textureBundleIDs = req.list], left, top, width, height,
                        samplerIdx, slice, cornerWidth, alpha)

\* A run of stores a[0], a[1], ... = vals into a Uint16Array of `cap` elements
\* held by its written prefix: stores past the end are dropped.
StorePrefix(a, vals, cap) ==
    LET k == Min(Len(vals), cap)
    IN [i \in 1 .. Max(k, Len(a)) |-> IF i <= k THEN ToUint16(vals[i]) ELSE a[i]]

\* The same stores into an array held as runs.
RECURSIVE RunsU16(_, _, _)
RunsU16(vals, lo, hi) ==
    IF lo > hi THEN <<>>
    ELSE IF lo = hi THEN <<[v |-> ToUint16(vals[lo].v), n |-> vals[lo].n]>>
    ELSE LET mid == (lo + hi) \div 2
         IN RunsCat(RunsU16(vals, lo, mid), RunsU16(vals, mid + 1, hi))

StoreRuns(a, vals, cap) ==
    LET k == Min(RunsLen(vals), cap)
    IN RunsCat(RunsTake(RunsU16(vals, 1, Len(vals)), k), RunsDrop(a, k))

\* A variant of beginFrame that allocates no tile list.
beginFrame_NoAlloc(this, cv) ==
    LET nx == Shr(cv[1], TILE_SIZE) + 1
        ny == Shr(cv[2], TILE_SIZE) + 1
        n == nx * ny
    IN [this EXCEPT !.viewport = [width |-> cv[1], height |-> cv[2]],
                    !.num_tiles_x = nx,
                    !.num_tiles_y = ny,
                    !.num_tiles_n = n,
                    !.tileCmdRanges = StorePrefix(this.tileCmdRanges, [i \in 1 .. n + 1 |-> 0],
                                                  MAX_TILES + 1)]

beginFrame(this, cv) ==
    LET nx == Shr(cv[1], TILE_SIZE) + 1
        ny == Shr(cv[2], TILE_SIZE) + 1
        n == nx * ny
    IN [this EXCEPT !.viewport = [width |-> cv[1], height |-> cv[2]],
                    !.num_tiles_x = nx,
                    !.num_tiles_y = ny,
                    !.num_tiles_n = n,
                    !.tileCmdRanges = StorePrefix(this.tileCmdRanges, [i \in 1 .. n + 1 |-> 0],
                                                  MAX_TILES + 1),
                    !.cmdsPerTile = [i \in DOMAIN this.cmdsPerTile \cup 0 .. n - 1 |->
                                        IF i < n THEN Uint16Array(MAX_CMDS_PER_TILE)
                                        ELSE this.cmdsPerTile[i]]]

\* The values the inner packing loop of draw() reads for one tile:
\* cmdsPerTile[ti][i + 1] for i < cmdsPerTile[ti][0].
RECURSIVE TileRead(_, _, _)
TileRead(tile, lo, hi) ==
    IF lo > hi THEN <<>>
    ELSE IF lo = hi THEN <<[v |-> U16Load(tile, lo), n |-> 1]>>
    ELSE LET mid == (lo + hi) \div 2
         IN RunsCat(TileRead(tile, lo, mid), TileRead(tile, mid + 1, hi))

\* The reads past the end of the Uint16Array give undefined.
TileSlice(tile) ==
    RunsPushN(TileRead(tile, 1, Min(tile[0], MAX_CMDS_PER_TILE - 1)),
              Undefined, tile[0] - (MAX_CMDS_PER_TILE - 1))

\* The packing loop of draw() over tiles lo .. hi-1: `starts` collects the
\* values of tileCmdIdx stored in tileCmdRanges (counted from the loop's
\* first tile), `cmds` the values stored in tileCmds, so that tileCmdIdx =
\* RunsLen(cmds).  The tiles are taken in order, by halves.
\* The loop over some tiles followed by the loop over the tiles after them.
PackJoin(first, rest) ==
    CHOOSE packed \in
        {[starts |-> first.starts \o [i \in 1 .. Len(rest.starts) |-> rest.starts[i] + n],
          cmds |-> RunsCat(first.cmds, rest.cmds)] : n \in {RunsLen(first.cmds)}} : TRUE

RECURSIVE PackTiles(_, _, _)
PackTiles(tiles, lo, hi) ==
    IF lo >= hi THEN [starts |-> <<>>, cmds |-> <<>>]
    ELSE IF lo + 1 = hi THEN [starts |-> <<0>>, cmds |-> TileSlice(tiles[lo])]
    ELSE CHOOSE packed \in
             {PackJoin(first, rest) :
                 first \in {PackTiles(tiles, lo, (lo + hi) \div 2)},
                 rest \in {PackTiles(tiles, (lo + hi) \div 2, hi)}} : TRUE

\* A variant of ClearFrame that leaves the style cursor where it is.
ClearFrame_KeepsStyleCursor(this) ==
    [this EXCEPT !.cmdDataIdx = 0,
                 !.cmdData = <<>>,
                 !.textureIDs = <<>>,
                 !.textureBundleIDs = <<>>,
                 !.stateColor = <<-1, -1, -1, -1>>,
                 !.stateChanges = 0]

\* The texture draw() binds to every texture unit of the image samplers:
\* units 5.. take the standalone requests in order, the units after them the
\* bundle requests, and the units left over the fallback textures.
BoundSamplers(this) ==
    [unit \in SAMPLER_BASE .. SAMPLER_BASE + NUM_SAMPLERS + NUM_BUNDLE_SAMPLERS - 1 |->
        IF unit < SAMPLER_BASE + NUM_SAMPLERS
        THEN LET i == unit - SAMPLER_BASE
             IN IF i < Len(this.textureIDs) THEN this.textureIDs[i + 1]
                ELSE fallback2DTextureID
        ELSE LET i == unit - SAMPLER_BASE - NUM_SAMPLERS
             IN IF i < Len(this.textureBundleIDs) THEN this.textureBundleIDs[i + 1]
                ELSE fallbackArrayTextureID]

\* A variant of ClearFrame that also empties the tile lists.
ClearFrame_ClearsTiles(this) ==
    [this EXCEPT !.cmdDataIdx = 0,
                 !.cmdData = <<>>,
                 !.textureIDs = <<>>,
                 !.textureBundleIDs = <<>>,
                 !.stateColor = <<-1, -1, -1, -1>>,
                 !.styleDataIdx = styleDataStartIdx,
                 !.stateChanges = 0,
                 !.cmdsPerTile = [ti \in DOMAIN this.cmdsPerTile |->
                                     Uint16Array(MAX_CMDS_PER_TILE)]]

\* The per-frame reset at the end of draw().
ClearFrame(this) ==
    [this EXCEPT !.cmdDataIdx = 0,
                 !.cmdData = <<>>,
                 !.textureIDs = <<>>,
                 !.textureBundleIDs = <<>>,
                 !.stateColor = <<-1, -1, -1, -1>>,
                 !.styleDataIdx = styleDataStartIdx,
                 !.stateChanges = 0]

\* The sub-region of the command image draw() uploads the commands to:
\* columns 0 .. width-1 of rows 0 .. height-1, the texel of command index t
\* being column t % MAX_CMD_BUFFER_LINE of row t \div MAX_CMD_BUFFER_LINE.
CmdUploadWidth(this) == Min(this.cmdDataIdx \div 4, MAX_CMD_BUFFER_LINE)

\* A variant of CmdUploadHeight that rounds down.
CmdUploadHeight_Floor(this) == (this.cmdDataIdx \div 4) \div MAX_CMD_BUFFER_LINE

\* Math.ceil(numCmds / MAX_CMD_BUFFER_LINE).
CmdUploadHeight(this) ==
    (this.cmdDataIdx \div 4 + MAX_CMD_BUFFER_LINE - 1) \div MAX_CMD_BUFFER_LINE

\* The row of the command image draw() uploads the styles to.
StyleUploadRow == MAX_CMD_BUFFER_LINE - 1

draw(this) ==
    LET n == this.num_tiles_n
        holes == {ti \in 0 .. n - 1 : ti \notin DOMAIN this.cmdsPerTile}
        \* Reading [0] of an undefined cmdsPerTile[ti] throws a TypeError.
        limit == IF holes = {} THEN n ELSE CHOOSE h \in holes : \A g \in holes : h <= g
        packed == PackTiles(this.cmdsPerTile, 0, limit)
        tileCmdIdx == RunsLen(packed.cmds)
        stored == [this EXCEPT
                      !.tileCmds = StoreRuns(this.tileCmds, packed.cmds,
                                             TILE_CMDS_BUFFER_LINE * TILE_CMDS_BUFFER_LINE),
                      !.tileCmdRanges = StorePrefix(this.tileCmdRanges,
                                                    Append(packed.starts, tileCmdIdx),
                                                    MAX_TILES + 1)]
    IN IF holes # {}
       THEN [this |-> stored, tileCmdIdx |-> tileCmdIdx, threw |-> TRUE]
       ELSE [this |-> ClearFrame(stored), tileCmdIdx |-> tileCmdIdx, threw |-> FALSE]

(***************************************************************************)
(* The caller.  A call is a record [op, a] of an add* function and its     *)
(* arguments, in the order of the function's parameters.                   *)
(***************************************************************************)
\* The public functions of the two builds.
Builds == {"shading.ts", "part_000"}

Functions(b) ==
    IF b = "shading.ts"
    THEN {"addFrame", "addLine", "addOrientedRect", "addGift", "beginFrame", "draw"}
    ELSE {"addPresent", "addRect", "addFrame", "addLine", "addOrientedRect", "addQuad",
          "addCircle", "addImage", "addImageFromBundle", "loadImage", "loadImageBundle",
          "beginFrame", "draw"}

Issue(b, this, c) ==
    CASE c.op = "addPresent" ->
           addPresent(this, c.a[1], c.a[2], c.a[3], c.a[4], c.a[5], c.a[6])
      [] c.op = "addCircle" ->
           addCircle(this, c.a[1], c.a[2], c.a[3])
      [] c.op = "addRect" ->
           addRect(this, c.a[1], c.a[2], c.a[3], c.a[4], c.a[5], c.a[6])
      [] c.op = "addFrame" ->
           addFrame(this, c.a[1], c.a[2], c.a[3], c.a[4], c.a[5], c.a[6], c.a[7])
      [] c.op = "addLine" ->
           addLine(this, c.a[1], c.a[2], c.a[3], c.a[4])
      [] c.op = "addOrientedRect" /\ b = "shading.ts" ->
           addOrientedRect(this, c.a[1], c.a[2], c.a[3], c.a[4], c.a[5], c.a[6])
      [] c.op = "addOrientedRect" /\ b = "part_000" ->
           addOrientedRect_part_000(this, c.a[1], c.a[2], c.a[3], c.a[4], c.a[5])
      [] c.op = "addQuad" ->
           addQuad(this, c.a[1], c.a[2], c.a[3], c.a[4], c.a[5])
      [] c.op = "addGift" ->
           addGift(this, c.a[1], c.a[2], c.a[3], c.a[4], c.a[5])
      [] c.op = "addImage" ->
           addImage(this, c.a[1], c.a[2], c.a[3], c.a[4], c.a[5], c.a[6], c.a[7])
      [] c.op = "addImageFromBundle" ->
           addImageFromBundle(this, c.a[1], c.a[2], c.a[3], c.a[4], c.a[5], c.a[6],
                              c.a[7], c.a[8])

\* The bounding box the called function computes for the shape.
CallBounds(c) ==
    CASE c.op \in {"addRect", "addFrame", "addImage", "addImageFromBundle"} ->
           Rect(c.a[1], c.a[2], c.a[3], c.a[4])
      [] c.op = "addPresent" -> Rect(c.a[1][1] - c.a[2], c.a[1][2] - c.a[2], c.a[2] * 2, c.a[2] * 2)
      [] c.op = "addCircle" -> widen(Rect(c.a[1][1], c.a[1][2], 0, 0), c.a[2])
      [] c.op = "addLine" -> LineBounds(c.a[1], c.a[2], c.a[3])
      [] c.op = "addQuad" -> QuadBounds(c.a[1], c.a[2], c.a[3], c.a[4])
      [] c.op \in {"addOrientedRect", "addGift"} -> OrientedBounds(c.a[1], c.a[3], c.a[4])

\* The style <<color, lineWidth, corner>> the called function asks for.
\* addGift takes no style: its call has none.
CallStyle(c) ==
    CASE c.op = "addRect" -> <<c.a[5], 0, c.a[6]>>
      [] c.op = "addPresent" -> <<c.a[4], 0, c.a[6]>>
      [] c.op = "addCircle" -> <<c.a[3], 0, c.a[2]>>
      [] c.op = "addFrame" -> <<c.a[6], c.a[5], c.a[7]>>
      [] c.op = "addLine" -> <<c.a[4], c.a[3], 0>>
      [] c.op \in {"addOrientedRect", "addQuad"} -> <<c.a[5], 0, 0>>
      [] c.op = "addImage" -> <<<<1, 1, 1, c.a[7]>>, 0, c.a[6]>>
      [] c.op = "addImageFromBundle" -> <<<<1, 1, 1, c.a[8]>>, 0, c.a[7]>>

\* The record of the styles asked for since the last draw(): the number of
\* maximal runs of shapes in view with equal style, and the style of the last.
NoStyles == [runs |-> 0, last |-> <<>>]

\* A box that lies fully outside the viewport vp.
OutsideViewport(b, vp) ==
    b.right < 0 \/ b.left > vp.width \/ b.top < 0 \/ b.bottom > vp.height

LogStyle(log, this, c) ==
    IF c.op = "addGift" \/ OutsideViewport(CallBounds(c), this.viewport) THEN log
    ELSE IF log.runs > 0 /\ log.last = CallStyle(c) THEN log
    ELSE [runs |-> log.runs + 1, last |-> CallStyle(c)]

\* The frame the caller is in, or was in last: open from beginFrame() to
\* draw(); `from` is the number of commands the buffer held when the frame
\* was opened, `calls` the add* calls issued in it (as runs), `clean` whether
\* it was opened with nothing left from calls made outside a frame, `steady`
\* whether no image finished loading while it was open.
NoFrame == [open |-> FALSE, from |-> 0, calls |-> <<>>, clean |-> FALSE, steady |-> FALSE]

OpenFrame(this) ==
    [open |-> TRUE, from |-> RunsLen(this.cmdData), calls |-> <<>>,
     clean |-> /\ this.cmdDataIdx = 0
               /\ this.stateChanges = 0
               /\ this.textureIDs = <<>>
               /\ this.textureBundleIDs = <<>>,
     steady |-> TRUE]

\* The calls of a frame with one more call (calls of different functions
\* take different arguments: the function is compared first).
PushCall(runs, c) ==
    IF Len(runs) > 0 /\ runs[Len(runs)].v.op = c.op /\ runs[Len(runs)].v.a = c.a
    THEN [runs EXCEPT ![Len(runs)].n = @ + 1]
    ELSE Append(runs, [v |-> c, n |-> 1])

LogCall(fr, c) == IF fr.open THEN [fr EXCEPT !.calls = PushCall(@, c)] ELSE fr

\* loadImage(url): the part that runs before it returns.
loadImage(this, textureID) ==
    [this EXCEPT !.loadingTextureIDs = Append(this.loadingTextureIDs, textureID)]

\* A variant of imageOnload that leaves the loading set as it is.
imageOnload_KeepsLoading(this, textureID) == this

\* image.onload of loadImage: the handle leaves the loading set.
imageOnload(this, textureID) ==
    LET idx == IndexOf(this.loadingTextureIDs, textureID)
    IN IF idx > -1
       THEN [this EXCEPT !.loadingTextureIDs =
                [i \in 1 .. Len(this.loadingTextureIDs) - 1 |->
                    IF i <= idx THEN this.loadingTextureIDs[i]
                    ELSE this.loadingTextureIDs[i + 1]]]
       ELSE this

(***************************************************************************)
(* Bounds of the model and the inputs the caller draws from.               *)
(***************************************************************************)
MaxOps == 3          \* calls per behaviour when all shape functions are in use
MaxImageOps == 3     \* calls per behaviour of the image scenario
MaxStyleOps == 6     \* calls per behaviour of the style scenario
MaxTileOps == 4      \* calls per behaviour of the tile scenario
MaxTextures == 1     \* handles gl.createTexture() hands out
MaxSlices == 2       \* urls of a bundle
MaxGiftOps == 4      \* calls per behaviour on the renderer of shading.ts

ColorA == <<1, 0, 0, 1>>
ColorB == <<0, 1, 0, 1>>

CanvasSizes == {<<40, 40>>, <<70, 40>>}

Call(op, a) == [op |-> op, a |-> a]

\* One call in view and one out of view for every shape function of part_000
\* (for a canvas of 40 x 40 and of 70 x 40).
ShapeCalls ==
    <<Call("addRect", <<30, 0, 4, 4, ColorA, 0>>),
     Call("addRect", <<71, 0, 4, 4, ColorA, 0>>),
     Call("addFrame", <<4, 4, 20, 20, 2, ColorA, 0>>),
     Call("addFrame", <<0, -9, 4, 4, 2, ColorA, 0>>),
     Call("addLine", <<<<2, 2>>, <<36, 2>>, 1, ColorB>>),
     Call("addLine", <<<<5, 50>>, <<9, 60>>, 3, ColorB>>),
     Call("addQuad", <<<<0, 0>>, <<10, 0>>, <<10, 10>>, <<0, 10>>, ColorA>>),
     Call("addQuad", <<<<-20, 0>>, <<-10, 0>>, <<-10, 5>>, <<-20, 5>>, ColorA>>),
     Call("addOrientedRect", <<<<20, 20>>, <<0, 1>>, 4, 6, ColorB>>),
     Call("addOrientedRect", <<<<-10, 20>>, <<0, 1>>, 4, 6, ColorB>>),
     Call("addCircle", <<<<10, 10>>, 4, ColorA>>),
     Call("addCircle", <<<<-10, 10>>, 4, ColorA>>),
     Call("addPresent", <<<<20, 20>>, 5, 0, ColorB, ColorA, 0>>),
     Call("addPresent", <<<<20, 60>>, 5, 0, ColorB, ColorA, 0>>)>>

\* The shape functions of shading.ts, in view and out of view.
GiftCalls ==
    <<Call("addFrame", <<4, 4, 20, 20, 2, ColorA, 0>>),
     Call("addLine", <<<<2, 2>>, <<36, 2>>, 1, ColorB>>),
     Call("addOrientedRect", <<<<20, 20>>, <<0, 1>>, 4, 6, ColorB, 1>>),
     Call("addOrientedRect", <<<<-10, 20>>, <<0, 1>>, 4, 6, ColorB, 1>>),
     Call("addGift", <<<<20, 20>>, <<0, 1>>, 4, 6, 0>>),
     Call("addGift", <<<<20, 50>>, <<0, 1>>, 4, 6, 0>>)>>

\* Images with and without a handle, in view and out of view.
ImageCalls ==
    <<Call("addImage", <<0, 0, 8, 8, NullTexture, 0, 1>>),
     Call("addImage", <<0, 0, 8, 8, 1, 0, 1>>),
     Call("addImage", <<0, 50, 8, 8, 1, 0, 1>>),
     Call("addImageFromBundle", <<0, 0, 8, 8, 1, 0, 0, 1>>),
     Call("addImageFromBundle", <<0, -20, 8, 8, 1, 0, 0, 1>>)>>

\* Shapes in view that differ in style only.
StyleCalls ==
    <<Call("addRect", <<4, 4, 8, 8, ColorA, 0>>),
     Call("addRect", <<4, 4, 8, 8, ColorB, 0>>),
     Call("addFrame", <<4, 4, 8, 8, 2, ColorA, 0>>)>>

\* Boxes on and across the tile boundaries and the edges of the grid.
TileCalls ==
    <<Call("addRect", <<30, 0, 4, 4, ColorA, 0>>),
     Call("addRect", <<0, 0, 40, 40, ColorA, 0>>),
     Call("addRect", <<-5, -5, 10, 10, ColorA, 0>>),
     Call("addRect", <<33, 33, 100, 100, ColorA, 0>>),
     Call("addRect", <<32, 31, 0, 1, ColorA, 0>>),
     Call("addRect", <<-4, 40, 4, 4, ColorA, 0>>),
     Call("addLine", <<<<31, 5>>, <<31, 5>>, 2, ColorA>>)>>

\* The build of the renderer, the caller's vocabulary (a list of calls of
\* that build) and the number of calls it makes.
Scenarios ==
    <<[build |-> "part_000", calls |-> ShapeCalls, budget |-> MaxOps],
      [build |-> "part_000", calls |-> ImageCalls, budget |-> MaxImageOps],
      [build |-> "part_000", calls |-> StyleCalls, budget |-> MaxStyleOps],
      [build |-> "part_000", calls |-> TileCalls, budget |-> MaxTileOps],
      [build |-> "shading.ts", calls |-> GiftCalls, budget |-> MaxGiftOps]>>

(***************************************************************************)
(* The state machine.                                                      *)
(***************************************************************************)
Commit(this) ==
    /\ viewport' = this.viewport
    /\ cmdData' = this.cmdData
    /\ styleData' = this.styleData
    /\ cmdDataIdx' = this.cmdDataIdx
    /\ textureIDs' = this.textureIDs
    /\ textureBundleIDs' = this.textureBundleIDs
    /\ loadingTextureIDs' = this.loadingTextureIDs
    /\ num_tiles_x' = this.num_tiles_x
    /\ num_tiles_y' = this.num_tiles_y
    /\ num_tiles_n' = this.num_tiles_n
    /\ cmdsPerTile' = this.cmdsPerTile
    /\ tileCmds' = this.tileCmds
    /\ tileCmdRanges' = this.tileCmdRanges
    /\ styleDataIdx' = this.styleDataIdx
    /\ stateColor' = this.stateColor
    /\ stateLineWidth' = this.stateLineWidth
    /\ stateCorner' = this.stateCorner
    /\ stateChanges' = this.stateChanges

Op(name, c, ret, threw, n) == [op |-> name, call |-> c, ret |-> ret, threw |-> threw, n |-> n]

NoCall == Call("", <<>>)

\* The renderer's fields are those of `this`.
Holds(this) ==
    /\ viewport = this.viewport
    /\ cmdData = this.cmdData
    /\ styleData = this.styleData
    /\ cmdDataIdx = this.cmdDataIdx
    /\ textureIDs = this.textureIDs
    /\ textureBundleIDs = this.textureBundleIDs
    /\ loadingTextureIDs = this.loadingTextureIDs
    /\ num_tiles_x = this.num_tiles_x
    /\ num_tiles_y = this.num_tiles_y
    /\ num_tiles_n = this.num_tiles_n
    /\ cmdsPerTile = this.cmdsPerTile
    /\ tileCmds = this.tileCmds
    /\ tileCmdRanges = this.tileCmdRanges
    /\ styleDataIdx = this.styleDataIdx
    /\ stateColor = this.stateColor
    /\ stateLineWidth = this.stateLineWidth
    /\ stateCorner = this.stateCorner
    /\ stateChanges = this.stateChanges

\* The state after `new UIRenderer(canvas, redrawCallback, ..)` of either build.
Init ==
    /\ Holds(NewUIRenderer)
    /\ canvas \in CanvasSizes
    /\ images = {}
    /\ bundles = <<>>
    /\ nextTextureID = 1
    /\ redraws = 0
    /\ \E i \in DOMAIN Scenarios :
          /\ build = Scenarios[i].build
          /\ calls = Scenarios[i].calls
          /\ budget = Scenarios[i].budget
    /\ styleLog = NoStyles
    /\ frame = NoFrame
    /\ lastOp = Op("new", NoCall, FALSE, FALSE, 0)

\* The handles loadImage() and loadImageBundle() have returned so far.
ImageHandles == {h \in 1 .. nextTextureID - 1 : h \notin DOMAIN bundles}
BundleHandles == DOMAIN bundles

\* The caller holds the handle it passes.
HoldsHandle(c) ==
    CASE c.op = "addImage" -> c.a[5] \in ImageHandles \cup {NullTexture}
      [] c.op = "addImageFromBundle" -> c.a[5] \in BundleHandles \cup {NullTexture}
      [] OTHER -> TRUE

Add(c) ==
    /\ budget > 0
    /\ c.op \in Functions(build)
    /\ HoldsHandle(c)
    /\ \E this \in {This} :
          /\ \E r \in {Issue(build, this, c)} :
                /\ Commit(r.this)
                /\ lastOp' = Op(c.op, c, r.ret, r.threw, 0)
          /\ styleLog' = LogStyle(styleLog, this, c)
    /\ frame' = LogCall(frame, c)
    /\ budget' = budget - 1
    /\ UNCHANGED <<canvas, images, bundles, nextTextureID, redraws, build, calls>>

AddPresent == \E i \in DOMAIN calls : calls[i].op = "addPresent" /\ Add(calls[i])
AddCircle == \E i \in DOMAIN calls : calls[i].op = "addCircle" /\ Add(calls[i])
AddRect == \E i \in DOMAIN calls : calls[i].op = "addRect" /\ Add(calls[i])
AddFrame == \E i \in DOMAIN calls : calls[i].op = "addFrame" /\ Add(calls[i])
AddLine == \E i \in DOMAIN calls : calls[i].op = "addLine" /\ Add(calls[i])
AddOrientedRect == \E i \in DOMAIN calls : calls[i].op = "addOrientedRect" /\ Add(calls[i])
AddQuad == \E i \in DOMAIN calls : calls[i].op = "addQuad" /\ Add(calls[i])
AddGift == \E i \in DOMAIN calls : calls[i].op = "addGift" /\ Add(calls[i])
AddImage == \E i \in DOMAIN calls : calls[i].op = "addImage" /\ Add(calls[i])
AddImageFromBundle == \E i \in DOMAIN calls : calls[i].op = "addImageFromBundle" /\ Add(calls[i])

BeginFrame ==
    /\ budget > 0
    /\ \E this \in {This} :
          /\ \E begun \in {beginFrame(this, canvas)} : Commit(begun)
          /\ frame' = OpenFrame(this)
    /\ lastOp' = Op("beginFrame", NoCall, FALSE, FALSE, 0)
    /\ budget' = budget - 1
    /\ UNCHANGED <<canvas, images, bundles, nextTextureID, redraws, build, calls, styleLog>>

Draw ==
    /\ budget > 0
    /\ \E r \in {draw(this) : this \in {This}} :
          /\ Commit(r.this)
          /\ lastOp' = Op("draw", NoCall, FALSE, r.threw, r.tileCmdIdx)
          /\ styleLog' = IF r.threw THEN styleLog ELSE NoStyles
          /\ frame' = IF r.threw THEN frame ELSE [frame EXCEPT !.open = FALSE]
    /\ budget' = budget - 1
    /\ UNCHANGED <<canvas, images, bundles, nextTextureID, redraws, build, calls>>

\* The canvas element is resized by the page.
Resize ==
    /\ budget > 0
    /\ canvas' \in CanvasSizes \ {canvas}
    /\ lastOp' = Op("resize", NoCall, FALSE, FALSE, 0)
    /\ budget' = budget - 1
    /\ UNCHANGED <<rvars, images, bundles, nextTextureID, redraws, build, calls, styleLog, frame>>

UsesImages == \E i \in DOMAIN calls : calls[i].op \in {"addImage", "addImageFromBundle"}

LoadImage ==
    /\ budget > 0
    /\ "loadImage" \in Functions(build)
    /\ UsesImages
    /\ nextTextureID <= MaxTextures
    /\ Commit(loadImage(This, nextTextureID))
    /\ images' = images \cup {[tex |-> nextTextureID, slice |-> -1]}
    /\ nextTextureID' = nextTextureID + 1
    /\ lastOp' = Op("loadImage", NoCall, FALSE, FALSE, nextTextureID)
    /\ budget' = budget - 1
    /\ UNCHANGED <<canvas, bundles, redraws, build, calls, styleLog, frame>>

\* image.onload of an image created by loadImage().
ImageOnload ==
    \E img \in images :
        /\ img.slice = -1
        /\ Commit(imageOnload(This, img.tex))
        /\ images' = images \ {img}
        /\ redraws' = redraws + 1
        /\ lastOp' = Op("image.onload", NoCall, FALSE, FALSE, img.tex)
        /\ frame' = [frame EXCEPT !.steady = FALSE]
        /\ UNCHANGED <<canvas, bundles, nextTextureID, build, calls, budget, styleLog>>

LoadImageBundle ==
    /\ budget > 0
    /\ "loadImageBundle" \in Functions(build)
    /\ UsesImages
    /\ nextTextureID <= MaxTextures
    /\ \E n \in 1 .. MaxSlices :
          /\ bundles' = [h \in DOMAIN bundles \cup {nextTextureID} |->
                            IF h = nextTextureID THEN [urls |-> n, loadedSlices |-> 0]
                            ELSE bundles[h]]
          /\ images' = images \cup {[tex |-> nextTextureID, slice |-> i] : i \in 0 .. n - 1}
    /\ nextTextureID' = nextTextureID + 1
    /\ lastOp' = Op("loadImageBundle", NoCall, FALSE, FALSE, nextTextureID)
    /\ budget' = budget - 1
    /\ UNCHANGED <<rvars, canvas, redraws, build, calls, styleLog, frame>>

\* A variant of SlicesLoaded that holds after every slice.
SlicesLoaded_AnySlice(loadedSlices, urls) == loadedSlices >= 1

\* The test `loadedSlices === urls.length` of a slice's onload handler.
SlicesLoaded(loadedSlices, urls) == loadedSlices = urls

\* image.onload of a slice image created by loadImageBundle().
SliceOnload ==
    \E img \in images :
        /\ img.slice # -1
        /\ bundles' = [bundles EXCEPT ![img.tex].loadedSlices = @ + 1]
        /\ redraws' = IF SlicesLoaded(bundles[img.tex].loadedSlices + 1, bundles[img.tex].urls)
                      THEN redraws + 1 ELSE redraws
        /\ images' = images \ {img}
        /\ lastOp' = Op("slice.onload", NoCall, FALSE, FALSE, img.tex)
        /\ UNCHANGED <<rvars, canvas, nextTextureID, build, calls, budget, styleLog, frame>>

\* An image fails to load: no handler is installed, nothing runs.
ImageError ==
    \E img \in images :
        /\ images' = images \ {img}
        /\ UNCHANGED <<rvars, canvas, bundles, nextTextureID, redraws, build, calls, budget,
                       styleLog, frame, lastOp>>

Next ==
    \/ BeginFrame
    \/ AddPresent
    \/ AddCircle
    \/ AddRect
    \/ AddFrame
    \/ AddLine
    \/ AddOrientedRect
    \/ AddQuad
    \/ AddGift
    \/ AddImage
    \/ AddImageFromBundle
    \/ Draw
    \/ Resize
    \/ LoadImage
    \/ ImageOnload
    \/ LoadImageBundle
    \/ SliceOnload
    \/ ImageError

Spec == Init /\ [][Next]_vars

(***************************************************************************)
(* The renderer under load.  The page's draw() (main.ts) opens a frame,    *)
(* adds one shape per item of its list and draws; the states below are the *)
(* ones that loop is in after `count` items, for lists long enough to fill *)
(* a tile list, the style region, the packed tile buffer and the shape     *)
(* region.                                                                 *)
(***************************************************************************)
MaxLoadedOps == 3          \* calls per behaviour after the items already added
LoadTileShapes == 62       \* items added to one tile
LoadStyleRuns == 255       \* items of alternating colour
LoadPackedShapes == 16383  \* items that cover every tile
LoadShapes == 65407        \* items of 16 floats each
LoadTextureShapes == 3     \* images of different textures
LoadedImages == 6          \* images the page has loaded
PendingImages == 1         \* images of the page that are still loading
LoadedBundles == 4         \* image bundles (of one url) the page has loaded
MaxReplay == 300           \* calls of a frame that is issued a second time
PendingSlices == 2         \* urls of the bundle that is still loading

\* A canvas of more than MAX_TILES tiles: 65 x 65.
LargeCanvas == <<2048, 2048>>

\* One add* call of the loop on the renderer, its style log and its outcome.
StepFrom(before, c, r) ==
    [build |-> before.build,
     this |-> r.this,
     log |-> LogStyle(before.log, before.this, c),
     issued |-> PushCall(before.issued, c),
     last |-> Op(c.op, c, r.ret, r.threw, 0)]

Step(sys, c) ==
    CHOOSE after \in {StepFrom(before, c, r) :
                         before \in {sys},
                         r \in {Issue(b, this, c) : b \in {sys.build}, this \in {sys.this}}} : TRUE

\* n iterations of the loop that calls pattern[1], pattern[2], ... in turn,
\* the first of them being call number `from` (counted from 0).
RECURSIVE Repeat(_, _, _, _)
Repeat(sys, pattern, from, n) ==
    IF n = 0 THEN sys
    ELSE IF n = 1 THEN Step(sys, pattern[(from % Len(pattern)) + 1])
    ELSE LET h == n \div 2
             half == Repeat(sys, pattern, from, h)
         IN IF half.this.cmdDataIdx >= 0 /\ half.log.runs >= 0
            THEN Repeat(half, pattern, from + h, n - h)
            ELSE half

\* The renderer after loadImage() was called for the handles from .. to.
RECURSIVE LoadImages(_, _, _)
LoadImages(this, from, to) ==
    IF from > to THEN this ELSE LoadImages(loadImage(this, from), from + 1, to)

\* The renderer after the images of the handles from .. to finished loading.
RECURSIVE FinishImages(_, _, _)
FinishImages(this, from, to) ==
    IF from > to THEN this ELSE FinishImages(imageOnload(this, from), from + 1, to)

\* The renderer of a page that has loaded its textures: LoadedImages images
\* that finished loading, then PendingImages images that are still loading.
TexturesLoaded(loaded, pending) ==
    FinishImages(LoadImages(NewUIRenderer, 1, loaded + pending), 1, loaded)

\* ui.beginFrame() and the first `count` iterations of the loop.
FrameAfter(b, this, cv, pattern, count) ==
    LET begun == beginFrame(this, cv)
    IN Repeat([build |-> b, this |-> begun, log |-> NoStyles, issued |-> <<>>,
               last |-> Op("beginFrame", NoCall, FALSE, FALSE, 0)],
              pattern, 0, count)

FullCanvasRect == Call("addRect", <<0, 0, 40, 40, ColorA, 0>>)

\* An image of a texture / of slice 0 of a bundle.
ImageCall(h) == Call("addImage", <<0, 0, 8, 8, h, 0, 1>>)
BundleCall(h) == Call("addImageFromBundle", <<0, 0, 8, 8, h, 0, 0, 1>>)

\* The images the page has drawn in the open frame.
TexturePattern == [h \in 1 .. LoadTextureShapes |-> ImageCall(h)]

\* An image of a texture of the frame, of the next two loaded textures, of a
\* texture that is still loading, of no texture, and of a bundle.
TextureCalls ==
    <<ImageCall(2), ImageCall(LoadTextureShapes + 1), ImageCall(LoadTextureShapes + 2),
      ImageCall(LoadedImages + 1), ImageCall(NullTexture),
      BundleCall(LoadedImages + PendingImages + 1)>>

\* An image of every bundle the page has loaded.
BundleCalls == [i \in 1 .. LoadedBundles |-> BundleCall(LoadedImages + i)]

\* The calls of shading.ts that are inside the canvas.
GiftKinds == <<GiftCalls[1], GiftCalls[2], GiftCalls[3], GiftCalls[5]>>

\* One call of every kind of shape of part_000, each inside the canvas.
ShapeKinds == [i \in 1 .. Len(ShapeCalls) \div 2 |-> ShapeCalls[2 * i - 1]]

\* The frame of the page that draws bundles: its images and the first bundle.
BundlePattern == TexturePattern \o <<BundleCall(LoadedImages + 1)>>

\* `slices` is the number of urls of the last bundle, whose slices are still
\* loading (0: every bundle has loaded its one slice).
NoLoads == [loaded |-> 0, pending |-> 0, bundles |-> 0, slices |-> 0]

\* The lists the page draws, the number of items already added, the calls
\* that may follow, the canvas and the textures the page has loaded.
Presets ==
    <<[build |-> "part_000", pattern |-> <<ShapeCalls[1]>>, count |-> 0, calls |-> ShapeKinds,
       canvas |-> <<40, 40>>, loads |-> NoLoads],
      [build |-> "part_000", pattern |-> <<ShapeCalls[1]>>, count |-> 0, calls |-> ImageCalls,
       canvas |-> <<40, 40>>, loads |-> NoLoads],
      [build |-> "part_000", pattern |-> <<StyleCalls[1]>>, count |-> LoadTileShapes,
       calls |-> <<StyleCalls[1], FullCanvasRect>>,
       canvas |-> <<40, 40>>, loads |-> NoLoads],
      [build |-> "part_000", pattern |-> <<StyleCalls[1], StyleCalls[2]>>, count |-> LoadStyleRuns,
       calls |-> <<StyleCalls[1], StyleCalls[2], StyleCalls[3]>>,
       canvas |-> <<40, 40>>, loads |-> NoLoads],
      [build |-> "part_000", pattern |-> <<FullCanvasRect>>, count |-> LoadPackedShapes,
       calls |-> <<FullCanvasRect>>,
       canvas |-> <<40, 40>>, loads |-> NoLoads],
      [build |-> "part_000", pattern |-> <<ShapeCalls[9]>>, count |-> LoadShapes,
       calls |-> <<ShapeCalls[9], StyleCalls[1], TileCalls[4]>>,
       canvas |-> <<40, 40>>, loads |-> NoLoads],
      [build |-> "part_000", pattern |-> TexturePattern, count |-> LoadTextureShapes,
       calls |-> TextureCalls,
       canvas |-> <<40, 40>>,
       loads |-> [loaded |-> LoadedImages, pending |-> PendingImages,
                  bundles |-> LoadedBundles, slices |-> 0]],
      [build |-> "part_000", pattern |-> BundlePattern, count |-> Len(BundlePattern),
       calls |-> BundleCalls,
       canvas |-> <<40, 40>>,
       loads |-> [loaded |-> LoadedImages, pending |-> 0, bundles |-> LoadedBundles,
                  slices |-> PendingSlices]],
      [build |-> "part_000", pattern |-> <<StyleCalls[1]>>, count |-> 0, calls |-> <<StyleCalls[1]>>,
       canvas |-> LargeCanvas, loads |-> NoLoads],
      [build |-> "shading.ts", pattern |-> <<GiftCalls[5]>>, count |-> 0, calls |-> GiftKinds,
       canvas |-> <<40, 40>>, loads |-> NoLoads]>>

InitLoaded ==
    \E i \in DOMAIN Presets :
        \E sys \in {FrameAfter(Presets[i].build,
                               TexturesLoaded(Presets[i].loads.loaded, Presets[i].loads.pending),
                               Presets[i].canvas, Presets[i].pattern, Presets[i].count)} :
           LET images_n == Presets[i].loads.loaded + Presets[i].loads.pending
               bundles_n == Presets[i].loads.bundles
           IN /\ Holds(sys.this)
              /\ canvas = Presets[i].canvas
              /\ images = {[tex |-> h, slice |-> -1] :
                              h \in Presets[i].loads.loaded + 1 .. images_n}
                           \cup {[tex |-> images_n + bundles_n, slice |-> k] :
                                    k \in 0 .. Presets[i].loads.slices - 1}
              /\ bundles = [h \in images_n + 1 .. images_n + bundles_n |->
                               IF h = images_n + bundles_n /\ Presets[i].loads.slices > 0
                               THEN [urls |-> Presets[i].loads.slices, loadedSlices |-> 0]
                               ELSE [urls |-> 1, loadedSlices |-> 1]]
              /\ nextTextureID = images_n + bundles_n + 1
              /\ redraws = Presets[i].loads.loaded + bundles_n
                             - (IF Presets[i].loads.slices > 0 THEN 1 ELSE 0)
              /\ build = Presets[i].build
              /\ calls = Presets[i].calls
              /\ budget = MaxLoadedOps
              /\ styleLog = sys.log
              /\ frame = [OpenFrame(NewUIRenderer) EXCEPT !.calls = sys.issued]
              /\ lastOp = sys.last

SpecLoaded == InitLoaded /\ [][Next]_vars

(***************************************************************************)
(* The claims.                                                             *)
(***************************************************************************)
\* The commands of the buffer one by one, each with the texel index `at` it
\* starts at: the floats before it, in units of 4.
RECURSIVE FloatsIn(_, _, _)
FloatsIn(runs, lo, hi) ==
    IF lo > hi THEN 0
    ELSE IF lo = hi THEN runs[lo].n * runs[lo].v.len
    ELSE LET mid == (lo + hi) \div 2
         IN FloatsIn(runs, lo, mid) + FloatsIn(runs, mid + 1, hi)

RECURSIVE CmdsIn(_, _, _)
CmdsIn(runs, lo, hi) ==
    IF lo > hi THEN <<>>
    ELSE IF lo = hi
    THEN LET cmd == runs[lo].v
             floats == FloatsIn(runs, 1, lo - 1)
         IN [i \in 1 .. runs[lo].n |->
                [at |-> (floats + (i - 1) * cmd.len) \div 4, len |-> cmd.len,
                 type |-> cmd.type, styleOffset |-> cmd.styleOffset,
                 bounds |-> cmd.bounds, params |-> cmd.params]]
    ELSE LET mid == (lo + hi) \div 2
         IN CmdsIn(runs, lo, mid) \o CmdsIn(runs, mid + 1, hi)

Cmds == CmdsIn(cmdData, 1, Len(cmdData))

AddOps == {"addPresent", "addCircle", "addRect", "addFrame", "addLine", "addOrientedRect",
           "addQuad", "addGift",
           "addImage", "addImageFromBundle"}

\* The step is a call of an add* function (lastOp' describes it).
IsAddStep == budget' = budget - 1 /\ lastOp'.op \in AddOps

\* C1: an add* call whose computed bounding box lies fully outside the
\* viewport (right < 0, left > width, top < 0 or bottom > height) writes no
\* command: the command cursor, the command records and every tile list are
\* as they were before the call.
C1_CulledWritesNothing ==
    [][(IsAddStep /\ OutsideViewport(CallBounds(lastOp'.call), viewport))
          => (cmdDataIdx' = cmdDataIdx /\ cmdData' = cmdData /\ cmdsPerTile' = cmdsPerTile)]_vars

\* A shape out of view was the last call of a frame that holds a command.
C1_Witness ==
    /\ lastOp.op \in AddOps
    /\ OutsideViewport(CallBounds(lastOp.call), viewport)
    /\ ~lastOp.ret
    /\ RunsLen(cmdData) >= 1
    /\ \E ti \in DOMAIN cmdsPerTile : cmdsPerTile[ti][0] >= 1

\* The floats each add* function writes for one command: header and bounds
\* (8), then its parameters and the slots it skips.
CallFloats(c) ==
    CASE c.op \in {"addPresent", "addCircle", "addRect", "addFrame"} -> 8
      [] c.op \in {"addLine", "addImage", "addImageFromBundle"} -> 12
      [] c.op \in {"addOrientedRect", "addQuad", "addGift"} -> 16

\* The command records, the command cursor and the tile lists are as before.
ShapeStateUnchanged ==
    cmdDataIdx' = cmdDataIdx /\ cmdData' = cmdData /\ cmdsPerTile' = cmdsPerTile

\* C2: when fewer than 4 free texels remain in the shape region
\* (cmdDataIdx/4 + 4 > MAX_SHAPE_CMDS), an add* call of a shape in view
\* returns false and leaves the command cursor, the command records and
\* every tile list unchanged.  No shape is partially written: an add* call
\* either leaves all three unchanged or appends one whole command (header,
\* bounds and all its parameters) that ends inside the shape region.
C2_DroppedWhole ==
    [][IsAddStep
          => /\ (cmdDataIdx \div 4 + 4 > MAX_SHAPE_CMDS
                   /\ ~OutsideViewport(CallBounds(lastOp'.call), viewport))
                   => (~lastOp'.ret /\ ~lastOp'.threw /\ ShapeStateUnchanged)
             /\ \/ ShapeStateUnchanged /\ ~lastOp'.ret
                \/ /\ lastOp'.ret
                   /\ cmdData' = RunsPush(cmdData, RunsLast(cmdData'))
                   /\ RunsLast(cmdData').len = CallFloats(lastOp'.call)
                   /\ cmdDataIdx' = cmdDataIdx + CallFloats(lastOp'.call)
                   /\ cmdDataIdx' <= MAX_SHAPE_CMDS * 4]_vars

\* The shape region holds 65408 commands of 16 floats and the last call, of
\* a shape in view, was dropped.
C2_Witness ==
    /\ lastOp.op \in AddOps
    /\ ~lastOp.ret /\ ~lastOp.threw
    /\ ~OutsideViewport(CallBounds(lastOp.call), viewport)
    /\ cmdDataIdx \div 4 + 4 > MAX_SHAPE_CMDS
    /\ RunsLen(cmdData) = 65408
    /\ cmdsPerTile[0][0] = 65408

\* C3 as stated: after each successful add the command cursor has advanced by
\* exactly 16 floats, and command k of a frame starts at float offset 16 * k.
C3_Original ==
    [][(IsAddStep /\ lastOp'.ret)
          => /\ cmdDataIdx' = cmdDataIdx + 16
             /\ \A k \in 1 .. Len(Cmds') : Cmds'[k].at * 4 = 16 * (k - 1)]_vars

\* C3, amended: a command occupies 8 floats (RECT, FRAME), 12 floats (LINE,
\* IMAGE) or 16 floats (QUAD, ORIENTED_RECT, GIFT), never more than 16: after
\* each successful add the command cursor has advanced by exactly that
\* number, and the command starts at the float offset the cursor was at.
C3_CommandSize ==
    [][(IsAddStep /\ lastOp'.ret)
          => /\ cmdDataIdx' = cmdDataIdx + CallFloats(lastOp'.call)
             /\ CallFloats(lastOp'.call) <= 16
             /\ \A after \in {cmdData'} :
                   /\ RunsLen(after) = RunsLen(cmdData) + 1
                   /\ FloatsIn(after, 1, Len(after)) - RunsLast(after).len = cmdDataIdx]_vars

\* A RECT command of 8 floats is followed by a command that starts at texel 2.
C3_Witness ==
    /\ RunsLen(cmdData) = 2
    /\ Cmds[1].type = CMD_RECT
    /\ Cmds[2].at = 2
    /\ lastOp.op \in AddOps /\ lastOp.ret

\* C4: within one frame the number of style records pushed equals the
\* number of maximal runs of consecutive shapes in view with equal (color,
\* lineWidth, corner).  addGift has no style argument and belongs to the run
\* it is issued in.  Without a wrap of the style region the records pushed
\* are the ones between the start of the region and the style cursor.
C4_OneStylePerRun ==
    /\ stateChanges = styleLog.runs
    /\ (styleLog.runs <= MAX_STYLE_CMDS \div 2
           => styleDataIdx - styleDataStartIdx = styleStep * styleLog.runs)

\* Five rectangles coloured A, A, B, A, A: three style records A, B, A.
C4_Witness ==
    /\ RunsLen(cmdData) = 5
    /\ \A k \in 1 .. 5 : Cmds[k].type = CMD_RECT
    /\ [k \in 1 .. 5 |-> Cmds[k].styleOffset] = <<0, 0, 2, 4, 4>>
    /\ stateChanges = 3
    /\ styleLog.runs = 3
    /\ styleData[styleDataStartIdx].color = ColorA
    /\ styleData[styleDataStartIdx + 8].color = ColorB
    /\ styleData[styleDataStartIdx + 16].color = ColorA

\* The shape functions that take a line width, and those that take a corner
\* radius.
UsesLineWidth(c) == c.op \in {"addFrame", "addLine"}
UsesCorner(c) == c.op \in {"addRect", "addFrame", "addImage", "addImageFromBundle"}

\* C5 as stated: a style record is appended if and only if the shape's color
\* differs component-wise from the active style, or the shape type uses
\* line width / corner radius and that value differs from the active one.
C5_Original ==
    [][(IsAddStep /\ lastOp'.op # "addGift"
           /\ ~OutsideViewport(CallBounds(lastOp'.call), viewport))
          => LET c == lastOp'.call
                 st == CallStyle(c)
             IN (stateChanges' = stateChanges + 1)
                   <=> \/ \E i \in 1 .. 4 : stateColor[i] # st[1][i]
                       \/ UsesLineWidth(c) /\ stateLineWidth # st[2]
                       \/ UsesCorner(c) /\ stateCorner # st[3]]_vars

\* x >> 5 as the claim writes it.
TileOf(x) == x \div 32

\* The tiles the claim's integer range names, as indices y * nx + x.
ClaimedTiles(b, nx, ny) ==
    {y * nx + x : x \in Max(TileOf(b.left), 0) .. Min(TileOf(b.right), nx - 1),
                  y \in Max(TileOf(b.bottom), 0) .. Min(TileOf(b.top), ny - 1)}

\* C7: for a written shape with bounding box [l, r, b, t] and a grid of
\* nx x ny tiles, the tiles whose list the add appends to are exactly those
\* with max(l>>5, 0) <= x <= min(r>>5, nx-1), max(b>>5, 0) <= y <= min(t>>5,
\* ny-1): each of them counts one more command, and a list with room left
\* holds the command's index as its last entry; no other tile changes.
C7_TileRange ==
    [][(IsAddStep /\ lastOp'.ret)
          => LET b == CallBounds(lastOp'.call)
                 claimed == ClaimedTiles(b, num_tiles_x, num_tiles_y)
             IN /\ {ti \in DOMAIN cmdsPerTile : cmdsPerTile'[ti] # cmdsPerTile[ti]} = claimed
                /\ \A ti \in claimed :
                      /\ cmdsPerTile'[ti][0] = (cmdsPerTile[ti][0] + 1) % 65536
                      /\ cmdsPerTile[ti][0] + 1 < MAX_CMDS_PER_TILE
                            => cmdsPerTile'[ti][cmdsPerTile[ti][0] + 1] = (cmdDataIdx \div 4) % 65536
          ]_vars

\* The box l=30, r=34, b=0, t=4 on a grid two tiles wide: tiles x=0 and x=1
\* of row 0 hold the command, the tiles of row 1 hold nothing.
C7_Witness ==
    /\ lastOp.op = "addRect" /\ lastOp.ret
    /\ CallBounds(lastOp.call).left = 30 /\ CallBounds(lastOp.call).right = 34
    /\ CallBounds(lastOp.call).bottom = 0 /\ CallBounds(lastOp.call).top = 4
    /\ num_tiles_x = 2 /\ num_tiles_y = 2
    /\ RunsLen(cmdData) = 1
    /\ cmdsPerTile[0][0] = 1 /\ cmdsPerTile[0][1] = 0
    /\ cmdsPerTile[1][0] = 1 /\ cmdsPerTile[1][1] = 0
    /\ cmdsPerTile[2][0] = 0 /\ cmdsPerTile[3][0] = 0

\* C6: a style push that would exceed the style region (more than
\* MAX_STYLE_CMDS texels in use) writes its record at the start of the style
\* region and the style cursor continues from there; the style cursor stays
\* within [styleDataStartIdx, MAX_CMD_DATA*4] and every style record lies
\* inside the style region, never in the shape region or past the buffer.
C6_StyleWrap ==
    /\ [](/\ styleDataStartIdx <= styleDataIdx
          /\ styleDataIdx <= MAX_CMD_DATA * 4
          /\ \A o \in DOMAIN styleData :
                styleDataStartIdx <= o /\ o + styleStep <= MAX_CMD_DATA * 4)
    /\ [][(IsAddStep /\ stateChanges' # stateChanges
             /\ (styleDataIdx - styleDataStartIdx) \div 4 + 2 > MAX_STYLE_CMDS)
            => /\ styleDataIdx' = styleDataStartIdx + styleStep
               /\ styleData'[styleDataStartIdx].color = CallStyle(lastOp'.call)[1]
               /\ \A o \in DOMAIN styleData \ {styleDataStartIdx} :
                     styleData'[o] = styleData[o]]_vars

\* The 257th style of a frame was written at the start of the style region.
C6_Witness ==
    /\ styleLog.runs = MAX_STYLE_CMDS \div 2 + 1
    /\ stateChanges = MAX_STYLE_CMDS \div 2 + 1
    /\ styleDataIdx = styleDataStartIdx + styleStep
    /\ styleData[styleDataStartIdx].color = stateColor
    /\ MAX_CMD_DATA * 4 - styleStep \in DOMAIN styleData

\* The command indices of the shapes written in the open frame whose box
\* overlaps tile ti, in the order the shapes were added.
FrameIndices(ti) ==
    LET Overlaps(cmd) ==
            ti \in ClaimedTiles([left |-> cmd.bounds[1], bottom |-> cmd.bounds[2],
                                 right |-> cmd.bounds[3], top |-> cmd.bounds[4]],
                                num_tiles_x, num_tiles_y)
    IN CHOOSE indices \in
           {[k \in 1 .. Len(written) |-> written[k].at] :
               written \in {SelectSeq(SubSeq(Cmds, frame.from + 1, Len(Cmds)), Overlaps)}} :
           TRUE

\* A tile's list: the count at [0] and the entries behind it.
TileList(tile) == [i \in 1 .. tile[0] |-> U16Load(tile, i)]

\* C8 as stated: at every point between beginFrame() and draw(), each
\* tile's list holds, in the order the shapes were added, exactly the command
\* indices of the shapes written this frame whose box overlaps the tile (so
\* none twice, and a shape spanning several tiles once in each).
C8_Original ==
    frame.open => \A ti \in 0 .. num_tiles_n - 1 : TileList(cmdsPerTile[ti]) = FrameIndices(ti)

\* The step is a draw() that ends a frame opened by beginFrame().
IsDrawStep == budget' = budget - 1 /\ lastOp'.op = "draw" /\ ~lastOp'.threw /\ frame.open

\* range[i] of the range table: a Uint16Array of MAX_TILES + 1 entries, 0
\* where nothing was stored, undefined past its end.
RangeAt(ranges, i) ==
    IF i + 1 \in DOMAIN ranges THEN ranges[i + 1]
    ELSE IF i < MAX_TILES + 1 THEN 0
    ELSE Undefined

\* C9 as stated: after draw() packs the tile lists, range[i+1] >= range[i]
\* for every tile i < num_tiles_n, and range[num_tiles_n] is the total number
\* of command indices packed this frame.
C9_Original ==
    [][IsDrawStep
          => \A range \in {tileCmdRanges'} :
                /\ \A i \in 0 .. num_tiles_n - 1 : RangeAt(range, i + 1) >= RangeAt(range, i)
                /\ RangeAt(range, num_tiles_n) = lastOp'.n]_vars

\* C10 as stated: after draw(), for every tile i in row-major order the
\* packed slice tileCmds[range[i] .. range[i+1]) equals tile i's binned
\* command-index list in insertion order, and range[i+1] - range[i] is the
\* number of shapes binned into tile i.
C10_Original ==
    [][IsDrawStep
          => \A packed \in {tileCmds'}, range \in {tileCmdRanges'} :
                \A i \in 0 .. num_tiles_n - 1 :
                   LET lo == RangeAt(range, i)
                       hi == RangeAt(range, i + 1)
                   IN /\ hi - lo = Len(FrameIndices(i))
                      /\ hi <= RunsLen(packed)
                      /\ Flat(RunsTake(RunsDrop(packed, lo), hi - lo)) = FrameIndices(i)]_vars

\* The step is a call of beginFrame().
IsBeginFrameStep == budget' = budget - 1 /\ lastOp'.op = "beginFrame"

\* C11 as stated: after draw() followed by beginFrame() the per-frame state
\* equals its initial empty state: command cursor 0, style cursor at
\* styleDataStartIdx, active-style cache (color [-1,-1,-1,-1], line width 1.0,
\* corner 0.0), both texture-request lists empty and every tile list of the
\* grid empty.
C11_Original ==
    [][(IsBeginFrameStep /\ lastOp.op = "draw" /\ ~lastOp.threw)
          => /\ cmdDataIdx' = 0
             /\ styleDataIdx' = styleDataStartIdx
             /\ stateColor' = <<-1, -1, -1, -1>>
             /\ stateLineWidth' = 1
             /\ stateCorner' = 0
             /\ textureIDs' = <<>>
             /\ textureBundleIDs' = <<>>
             /\ \A ti \in 0 .. num_tiles_n' - 1 :
                   cmdsPerTile'[ti] = Uint16Array(MAX_CMDS_PER_TILE)]_vars

\* The calls of a frame (held as runs lo .. hi) issued again, in order.
RECURSIVE ReplayIn(_, _, _, _)
ReplayIn(sys, runs, lo, hi) ==
    IF lo > hi THEN sys
    ELSE IF lo = hi THEN Repeat(sys, <<runs[lo].v>>, 0, runs[lo].n)
    ELSE LET mid == (lo + hi) \div 2
             half == ReplayIn(sys, runs, lo, mid)
         IN IF half.this.cmdDataIdx >= 0 /\ half.log.runs >= 0
            THEN ReplayIn(half, runs, mid + 1, hi)
            ELSE half

\* The renderer at the end of the next frame, before its draw(): the open
\* frame is drawn, the image of handle h finishes loading (none for
\* NullTexture), and beginFrame() and the calls of the open frame follow.
NextFrame(h) ==
    ReplayIn([build |-> build,
              this |-> beginFrame(imageOnload(draw(This).this, h), canvas),
              log |-> NoStyles, issued |-> <<>>,
              last |-> Op("beginFrame", NoCall, FALSE, FALSE, 0)],
             frame.calls, 1, Len(frame.calls)).this

\* The command records, the style records and the tile lists of `this` are
\* the ones the renderer holds.
SameRecords(this) ==
    /\ this.cmdDataIdx = cmdDataIdx
    /\ this.cmdData = cmdData
    /\ this.styleDataIdx = styleDataIdx
    /\ this.styleData = styleData
    /\ this.cmdsPerTile = cmdsPerTile

\* The handles whose image may finish loading.
InFlight == {img.tex : img \in {i \in images : i.slice = -1}}

\* The frame that draw() ends did not see the canvas change.
SameViewport == canvas = <<viewport.width, viewport.height>>

\* C12 as stated: for any sequence of add* calls and an unchanged viewport,
\* issuing the sequence in one frame (beginFrame, adds, draw: the frame is
\* opened on an empty buffer) and again in the next frame produces identical
\* command records, style records and tile lists in both frames, whether or
\* not an image finishes loading in between.
C12_Original ==
    [][(IsDrawStep /\ SameViewport /\ RunsLen(frame.calls) <= MaxReplay /\ frame.clean)
          => \A h \in InFlight \cup {NullTexture} :
                \A again \in {NextFrame(h)} : SameRecords(again)]_vars

\* C12, amended: when no image finishes loading from the first beginFrame()
\* to the second draw(), a sequence of add* calls issued in one frame
\* (opened on an empty buffer: no add* call was made outside a frame) and
\* again in the next, with the viewport unchanged, produces identical
\* command records, style records and tile lists in both frames.
C12_TwoFrames ==
    [][(IsDrawStep /\ SameViewport /\ RunsLen(frame.calls) <= MaxReplay
           /\ frame.clean /\ frame.steady)
          => \A again \in {NextFrame(NullTexture)} : SameRecords(again)]_vars

\* A frame of at least two different calls, opened on an empty buffer, was
\* drawn; its shapes were packed.
C12_Witness ==
    /\ lastOp.op = "draw" /\ ~lastOp.threw
    /\ ~frame.open /\ frame.clean /\ frame.steady
    /\ Len(frame.calls) >= 2
    /\ lastOp.n >= 2
    /\ cmdDataIdx = 0
    /\ SameViewport

\* The step is a call of addImage or addImageFromBundle.
IsImageStep == IsAddStep /\ lastOp'.op \in {"addImage", "addImageFromBundle"}

\* The list holds the handle / holds no handle twice.
InList(list, h) == \E i \in 1 .. Len(list) : list[i] = h
NoDuplicates(list) == \A i, j \in 1 .. Len(list) : list[i] = list[j] => i = j

\* The position (from 0) of a handle the list holds.
Position(list, h) == (CHOOSE i \in 1 .. Len(list) : list[i] = h) - 1

\* C13: pushTextureID(handle, list) returns the handle's existing position
\* when the list holds it already and leaves the list unchanged; otherwise,
\* for a handle of the loading set, it returns -1 and leaves the list
\* unchanged; otherwise it appends the handle and returns the previous length
\* of the list.  No list ever holds a handle twice: requesting the same
\* loaded handle repeatedly grows the list by exactly one.
C13_PushTextureID ==
    /\ [](NoDuplicates(textureIDs) /\ NoDuplicates(textureBundleIDs))
    /\ [][(IsImageStep /\ lastOp'.call.a[5] # NullTexture)
            => LET h == lastOp'.call.a[5]
                   standalone == lastOp'.op = "addImage"
                   before == IF standalone THEN textureIDs ELSE textureBundleIDs
                   after == IF standalone THEN textureIDs' ELSE textureBundleIDs'
                   r == pushTextureID(This, h, before)
               IN /\ r.list = after
                  /\ IF InList(before, h)
                     THEN after = before /\ r.idx = Position(before, h)
                     ELSE IF InList(loadingTextureIDs, h)
                     THEN after = before /\ r.idx = -1
                     ELSE after = Append(before, h) /\ r.idx = Len(before)]_vars

\* The second of three requested textures was drawn once more: the list is
\* as it was and the new command carries the texture's slot.
C13_Witness ==
    /\ lastOp.op = "addImage" /\ lastOp.ret
    /\ Len(textureIDs) = 3
    /\ textureIDs[2] = lastOp.call.a[5]
    /\ RunsLen(cmdData) = 4
    /\ RunsLast(cmdData).params[1] = SAMPLER_BASE + 1

\* C14 as stated: with 5 standalone sampler slots, the image commands of the
\* first 5 distinct loaded textures drawn with addImage in a frame carry the
\* sampler indices base+0 .. base+4 (base = 5), and only a 6th texture
\* carries the error-placeholder index -2.
C14_Original ==
    [][(IsImageStep /\ lastOp'.op = "addImage" /\ lastOp'.ret
           /\ lastOp'.call.a[5] # NullTexture
           /\ ~InList(loadingTextureIDs, lastOp'.call.a[5]))
          => LET k == Position(textureIDs', lastOp'.call.a[5])
             IN RunsLast(cmdData').params[1] =
                   IF k < NUM_SAMPLERS THEN SAMPLER_BASE + k ELSE -2]_vars

\* An image command (GIFT commands of the other variant of the renderer share
\* the type number and take five parameters).
IsImageCmd(cmd) == cmd.type = CMD_IMAGE /\ Len(cmd.params) = 2

\* The sampler indices of the standalone slots and of the bundle slots.
StandaloneSlots == SAMPLER_BASE .. SAMPLER_BASE + NUM_SAMPLERS - 1
BundleSlots == BUNDLE_SAMPLER_BASE .. BUNDLE_SAMPLER_BASE + NUM_BUNDLE_SAMPLERS - 1

\* a is the list b or the first part of it.
IsPrefix(a, b) == Len(a) <= Len(b) /\ \A i \in 1 .. Len(a) : a[i] = b[i]

\* C15: in any frame no two distinct handles share a sampler slot.  A slot
\* is a position of a request list, and no list holds a handle twice; an
\* image command that carries a non-negative sampler index carries the slot
\* of its own handle (5..9 for standalone images, 10..12 for bundles), and a
\* texture out of the slot budget gets -2; until draw() the lists only grow
\* at the end, so a slot keeps its handle; and draw() binds to the texture
\* unit of every slot a command carries the handle at that position.
C15_NoSharedSlot ==
    /\ [](NoDuplicates(textureIDs) /\ NoDuplicates(textureBundleIDs))
    /\ [][(IsImageStep /\ lastOp'.ret)
            => LET h == lastOp'.call.a[5]
                   standalone == lastOp'.op = "addImage"
                   after == IF standalone THEN textureIDs' ELSE textureBundleIDs'
                   slots == IF standalone THEN StandaloneSlots ELSE BundleSlots
                   base == IF standalone THEN SAMPLER_BASE ELSE BUNDLE_SAMPLER_BASE
                   sampler == RunsLast(cmdData').params[1]
               IN /\ sampler \in slots \cup {-1, -2}
                  /\ sampler >= 0 => (sampler - base < Len(after)
                                        /\ after[sampler - base + 1] = h)
                  /\ (InList(after, h) /\ Position(after, h) >= Cardinality(slots))
                        => sampler = -2]_vars
    /\ [][(lastOp'.op # "draw")
            => /\ IsPrefix(textureIDs, textureIDs')
               /\ IsPrefix(textureBundleIDs, textureBundleIDs')]_vars
    /\ [][(budget' = budget - 1 /\ lastOp'.op = "draw" /\ ~lastOp'.threw)
            => \A k \in 1 .. Len(cmdData) :
                  LET cmd == cmdData[k].v
                      sampler == cmd.params[1]
                  IN (IsImageCmd(cmd) /\ sampler >= 0)
                        => BoundSamplers(This)[sampler] =
                              IF sampler \in StandaloneSlots
                              THEN textureIDs[sampler - SAMPLER_BASE + 1]
                              ELSE textureBundleIDs[sampler - BUNDLE_SAMPLER_BASE + 1]]_vars

\* Five standalone textures and one bundle were requested in a frame: its
\* commands carry the slots 5..8 and 10, and the fifth texture carries -2.
C15_Witness ==
    /\ frame.open
    /\ Len(textureIDs) = 5 /\ Len(textureBundleIDs) = 1
    /\ {cmdData[k].v.params[1] : k \in 1 .. Len(cmdData)} = {5, 6, 7, 8, 10, -2}
    /\ \A k \in 1 .. Len(cmdData) : IsImageCmd(cmdData[k].v)

\* beginFrame() has allocated the tile lists of the grid.
GridAllocated == \A ti \in 0 .. num_tiles_n - 1 : ti \in DOMAIN cmdsPerTile

\* C16: addImage / addImageFromBundle with a null or undefined handle writes
\* an IMAGE command whose sampler index is -2, and with a handle still in the
\* loading set one whose sampler index is -1 (the command is written when the
\* image is in view and the buffer has room); in both cases both
\* texture-request lists are left unchanged and no error is raised (on a grid
\* that beginFrame() has allocated).
C16_Placeholders ==
    [][(IsImageStep
           /\ (lastOp'.call.a[5] = NullTexture \/ InList(loadingTextureIDs, lastOp'.call.a[5])))
          => /\ textureIDs' = textureIDs
             /\ textureBundleIDs' = textureBundleIDs
             /\ GridAllocated => ~lastOp'.threw
             /\ (GridAllocated /\ ~OutsideViewport(CallBounds(lastOp'.call), viewport)
                   /\ ~(cmdDataIdx \div 4 + 4 > MAX_SHAPE_CMDS)) => lastOp'.ret
             /\ lastOp'.ret
                  => /\ RunsLen(cmdData') = RunsLen(cmdData) + 1
                     /\ IsImageCmd(RunsLast(cmdData'))
                     /\ RunsLast(cmdData').params[1] =
                           IF lastOp'.call.a[5] = NullTexture THEN -2 ELSE -1]_vars

\* An image without a handle and an image whose handle is still loading were
\* added to a frame: the commands carry -2 and -1 and no texture was requested
\* for them.
C16_Witness ==
    /\ frame.open
    /\ lastOp.op = "addImage" /\ lastOp.ret
    /\ InList(loadingTextureIDs, lastOp.call.a[5])
    /\ RunsLen(cmdData) = LoadTextureShapes + 2
    /\ Len(textureIDs) = LoadTextureShapes
    /\ textureBundleIDs = <<>>
    /\ Cmds[LoadTextureShapes + 1].params[1] = -2
    /\ Cmds[LoadTextureShapes + 2].params[1] = -1

\* The image of handle h finishes loading / fails to load in this step.
IsOnloadStep(h) ==
    /\ [tex |-> h, slice |-> -1] \in images
    /\ [tex |-> h, slice |-> -1] \notin images'
    /\ lastOp'.op = "image.onload" /\ lastOp'.n = h
IsErrorStep(h) ==
    /\ [tex |-> h, slice |-> -1] \in images
    /\ [tex |-> h, slice |-> -1] \notin images'
    /\ lastOp' = lastOp

\* The loads that completed: images that left the loading set and bundles
\* whose slices all arrived.
CompletedLoads ==
    Cardinality({h \in ImageHandles : ~InList(loadingTextureIDs, h)})
    + Cardinality({h \in BundleHandles : bundles[h].loadedSlices = bundles[h].urls})

\* C17: a handle returned by loadImage is in the loading set from the moment
\* loadImage returns until its load completes; the completion removes the
\* handle from the loading set and invokes the redraw callback, exactly once
\* per completed load (the callback runs last in the handler, on the set
\* without the handle); a load that fails leaves the handle in the loading
\* set forever and requests no redraw.
C17_LoadingSet ==
    /\ [](/\ \A h \in InFlight : InList(loadingTextureIDs, h)
          /\ redraws = CompletedLoads)
    /\ [][(budget' = budget - 1 /\ lastOp'.op = "loadImage")
            => /\ InList(loadingTextureIDs', lastOp'.n)
               /\ ~InList(loadingTextureIDs, lastOp'.n)
               /\ [tex |-> lastOp'.n, slice |-> -1] \in images']_vars
    /\ [][\A h \in InFlight :
             /\ IsOnloadStep(h)
                  => /\ ~InList(loadingTextureIDs', h)
                     /\ redraws' = redraws + 1
             /\ IsErrorStep(h)
                  => /\ loadingTextureIDs' = loadingTextureIDs
                     /\ redraws' = redraws]_vars
    /\ [][\A i \in 1 .. Len(loadingTextureIDs) :
             loadingTextureIDs[i] \notin InFlight
                => InList(loadingTextureIDs', loadingTextureIDs[i])]_vars
    /\ [][redraws' # redraws
            => /\ redraws' = redraws + 1
               /\ lastOp'.op \in {"image.onload", "slice.onload"}]_vars

\* An image finished loading while a frame was open: its handle left the
\* loading set and one redraw was requested.
C17_Witness ==
    /\ frame.open
    /\ lastOp.op = "image.onload"
    /\ nextTextureID = lastOp.n + 1
    /\ ~InList(loadingTextureIDs, lastOp.n)
    /\ images = {}
    /\ redraws = 1

\* C18 as stated: an add* call is permitted in every renderer state,
\* including before the first beginFrame() and after draw() without a new
\* beginFrame(): it completes without error, and a shape in view with room
\* in the buffer is binned against the viewport and the tile grid of the most
\* recent beginFrame().
C18_Original ==
    [][IsAddStep
          => /\ ~lastOp'.threw
             /\ (~OutsideViewport(CallBounds(lastOp'.call), viewport)
                   /\ ~(cmdDataIdx \div 4 + 4 > MAX_SHAPE_CMDS))
                  => /\ lastOp'.ret
                     /\ {ti \in DOMAIN cmdsPerTile : cmdsPerTile'[ti] # cmdsPerTile[ti]}
                           = ClaimedTiles(CallBounds(lastOp'.call), num_tiles_x, num_tiles_y)]_vars

\* C19 as stated: after every beginFrame(), num_tiles_x = (width >> 5) + 1,
\* num_tiles_y = (height >> 5) + 1, num_tiles_n = num_tiles_x * num_tiles_y,
\* and num_tiles_n <= MAX_TILES for every viewport size, so that the range
\* table of MAX_TILES + 1 entries holds the start of every tile and the final
\* sentinel.
C19_Original ==
    [][IsBeginFrameStep
          => /\ viewport' = [width |-> canvas[1], height |-> canvas[2]]
             /\ num_tiles_x' = TileOf(canvas[1]) + 1
             /\ num_tiles_y' = TileOf(canvas[2]) + 1
             /\ num_tiles_n' = num_tiles_x' * num_tiles_y'
             /\ num_tiles_n' <= MAX_TILES
             /\ num_tiles_n' + 1 <= Len(tileCmdRanges')]_vars

\* C20: capacity exhaustion never crashes the frame loop: between
\* beginFrame() and draw(), however many shapes, styles, shapes per tile,
\* tiles or textures the frame holds, no add* call and no draw() raises an
\* error, and draw() completes and resets the per-frame state (command
\* cursor and records, style cursor and count, color cache, both
\* texture-request lists).
C20_NoCrash ==
    [][(frame.open /\ budget' = budget - 1 /\ lastOp'.op \in AddOps \cup {"draw"})
          => /\ ~lastOp'.threw
             /\ lastOp'.op = "draw"
                  => /\ cmdDataIdx' = 0
                     /\ cmdData' = <<>>
                     /\ styleDataIdx' = styleDataStartIdx
                     /\ stateChanges' = 0
                     /\ stateColor' = <<-1, -1, -1, -1>>
                     /\ textureIDs' = <<>>
                     /\ textureBundleIDs' = <<>>
                     /\ ~frame'.open]_vars

\* A frame whose shape region was full (one more shape was issued than the
\* region took) was drawn: every written shape was packed and the cursor is
\* back at 0.
C20_Witness ==
    /\ lastOp.op = "draw" /\ ~lastOp.threw
    /\ ~frame.open
    /\ RunsLen(frame.calls) = MAX_SHAPE_CMDS \div 4 + 1
    /\ cmdsPerTile[0][0] = MAX_SHAPE_CMDS \div 4
    /\ lastOp.n = MAX_SHAPE_CMDS \div 4
    /\ cmdDataIdx = 0

\* The tile lists of the grid that beginFrame() allocated.
GridTiles == {ti \in 0 .. num_tiles_n - 1 : ti \in DOMAIN cmdsPerTile}

\* C21 as stated: when more shapes are binned into one tile than its list
\* can hold (64 slots, one of them the count) the result is truncated: in a
\* frame the count a tile records never exceeds the number of indices stored
\* in its list (at most MAX_CMDS_PER_TILE - 1), and the packer of draw()
\* reads no slot past the list's capacity, so that every index it emits for
\* a tile is an entry stored in that tile's list.
C21_Original ==
    /\ [](frame.open => \A ti \in GridTiles : cmdsPerTile[ti][0] <= MAX_CMDS_PER_TILE - 1)
    /\ [][IsDrawStep
            => \A ti \in GridTiles :
                  \A emitted \in {Flat(TileSlice(cmdsPerTile[ti]))} :
                     \A k \in 1 .. Len(emitted) :
                        /\ k \in DOMAIN cmdsPerTile[ti]
                        /\ emitted[k] = cmdsPerTile[ti][k]]_vars

\* The calls of the frame whose shape is in view and takes a style, in the
\* order they were issued.
StyledCalls ==
    SelectSeq(Flat(frame.calls),
              LAMBDA c : c.op # "addGift" /\ ~OutsideViewport(CallBounds(c), viewport))

\* The style record pushStyleIfNew writes for a call.
StyleRecord(c) ==
    [lineWidth |-> CallStyle(c)[2], corner |-> CallStyle(c)[3], color |-> CallStyle(c)[1]]

\* The style record the renderer reads for a command at draw().
ResolvedStyle(cmd) == styleData[styleDataStartIdx + cmd.styleOffset * 4]

\* The number of style records the style region holds.
StyleSlots == MAX_STYLE_CMDS \div 2

\* C22: the style wrap-around corrupts style references.  In a frame, the
\* command of the k-th styled shape refers to the slot its style was pushed
\* at, and at draw() it resolves to the style pushed last at that slot: the
\* style active when the command was added as long as fewer than 256 styles
\* were pushed after it, and after a wrap the style that overwrote the slot,
\* which differs from the command's own whenever the two pushes differ.
C22_StyleCorruption ==
    (frame.open /\ frame.clean /\ RunsLen(frame.calls) <= MaxReplay)
      => \A styled \in {StyledCalls}, cmds \in {Cmds} :
            Len(cmds) = Len(styled)
              => \A isPush \in {[j \in 1 .. Len(styled) |->
                                   j = 1 \/ CallStyle(styled[j]) # CallStyle(styled[j - 1])]} :
                 \A pushNo \in {[i \in 1 .. Len(styled) |->
                                   Cardinality({j \in 1 .. i : isPush[j]})]} :
                 \A pushedBy \in {[q \in 1 .. stateChanges |->
                                     CHOOSE i \in 1 .. Len(styled) :
                                        isPush[i] /\ pushNo[i] = q]} :
                    \A k \in 1 .. Len(styled) :
                       LET p == pushNo[k]
                           last == p + StyleSlots * ((stateChanges - p) \div StyleSlots)
                           by == pushedBy[last]
                       IN /\ cmds[k].styleOffset = ((p - 1) % StyleSlots) * 2
                          /\ ResolvedStyle(cmds[k]) = StyleRecord(styled[by])
                          /\ (last = p => ResolvedStyle(cmds[k]) = StyleRecord(styled[k]))
                          /\ (StyleRecord(styled[by]) # StyleRecord(styled[k])
                                => ResolvedStyle(cmds[k]) # StyleRecord(styled[k]))

\* The 257th style of a frame overwrote the first: the frame's first
\* rectangle, added with line width 0, resolves to a style of line width 2.
C22_Witness ==
    /\ frame.open /\ frame.clean
    /\ stateChanges = StyleSlots + 1
    /\ RunsLen(cmdData) = StyleSlots + 1
    /\ Cmds[1].styleOffset = 0
    /\ frame.calls[1].v = StyleCalls[1]
    /\ ResolvedStyle(Cmds[1]).lineWidth = 2
    /\ ResolvedStyle(Cmds[1]) # StyleRecord(StyleCalls[1])

\* C23: at draw(), the uploaded command sub-region (width = min(numCmds,
\* 512), height = ceil(numCmds / 512), numCmds = cursor / 4) contains the
\* texel of every command index below the cursor and does not reach the
\* last row of the 512 x 512 image, which holds the styles, for every
\* cursor value the renderer reaches: the cursor never passes
\* MAX_SHAPE_CMDS texels.
C23_CommandUpload ==
    /\ [](cmdDataIdx % 4 = 0 /\ cmdDataIdx \div 4 <= MAX_SHAPE_CMDS)
    /\ [][(budget' = budget - 1 /\ lastOp'.op = "draw")
            => \A width \in {CmdUploadWidth(This)}, height \in {CmdUploadHeight(This)} :
                  /\ width = Min(cmdDataIdx \div 4, 512)
                  /\ \A t \in 0 .. cmdDataIdx \div 4 - 1 :
                        /\ t % MAX_CMD_BUFFER_LINE < width
                        /\ t \div MAX_CMD_BUFFER_LINE < height
                  /\ height - 1 < StyleUploadRow
                  /\ height <= MAX_CMD_BUFFER_LINE - 1]_vars

\* A frame that filled the shape region to its last texel (65408 shapes of
\* 4 texels, all written) was drawn.
C23_Witness ==
    /\ lastOp.op = "draw" /\ ~lastOp.threw
    /\ ~frame.open
    /\ Len(frame.calls) = 1
    /\ frame.calls[1].n * 4 = MAX_SHAPE_CMDS
    /\ lastOp.n = MAX_SHAPE_CMDS \div 4
    /\ cmdDataIdx = 0

\* C24 as stated: every command written in a frame carries a style_offset
\* that is non-negative and is the texel offset of a style record pushed
\* earlier in the same frame, namely the most recently pushed one, for every
\* shape type (addGift included) and in every frame.
C24_Original ==
    [][(IsAddStep /\ frame.open /\ lastOp'.ret)
          => \A cmd \in {RunsLast(cmdData')} :
                /\ cmd.styleOffset >= 0
                /\ stateChanges' >= 1
                /\ styleDataStartIdx + cmd.styleOffset * 4 = styleDataIdx' - styleStep
                /\ styleDataStartIdx + cmd.styleOffset * 4 \in DOMAIN styleData']_vars

\* C25 as stated: for every command admitted by the capacity check (texel
\* index up to MAX_SHAPE_CMDS - 4) the index stored in the 16-bit tile lists
\* (which draw() copies into the packed array) equals the command's texel
\* index in the command buffer, so that two commands of one frame never get
\* the same stored index.
C25_Original ==
    [][(IsAddStep /\ frame.open /\ lastOp'.ret)
          => \A ti \in ClaimedTiles(CallBounds(lastOp'.call), num_tiles_x, num_tiles_y) :
                (ti \in GridTiles /\ cmdsPerTile'[ti][0] <= MAX_CMDS_PER_TILE - 1)
                  => /\ cmdsPerTile'[ti][cmdsPerTile'[ti][0]] = cmdDataIdx \div 4
                     /\ \A i \in 1 .. cmdsPerTile'[ti][0] - 1 :
                           cmdsPerTile'[ti][i] # cmdsPerTile'[ti][cmdsPerTile'[ti][0]]]_vars

\* The tile's list holds the 16-bit index of the command at texel index t.
ListHolds(tile, t) ==
    \E i \in 1 .. Min(tile[0], MAX_CMDS_PER_TILE - 1) : tile[i] = ToUint16(t)

\* C26 as stated: every command written between beginFrame() and draw() is
\* binned into at least one tile: the tile range of a shape that passes the
\* viewport cull is non-empty, so no written command is unreachable from the
\* tile table (some tile's list holds its index).
C26_Original ==
    [][(IsAddStep /\ frame.open /\ lastOp'.ret)
          => \A tiles \in {ClaimedTiles(CallBounds(lastOp'.call), num_tiles_x, num_tiles_y)} :
                /\ tiles # {}
                /\ \E ti \in tiles :
                      ti \in GridTiles /\ ListHolds(cmdsPerTile'[ti], cmdDataIdx \div 4)]_vars

\* C27: a shape dropped by the capacity check still goes through the style
\* push that precedes the check: no command is written for it (cursor,
\* records and tile lists stay), and when its style differs from the active
\* one the style cursor advances by one record, the record is written at the
\* slot before the cursor, the count of style changes grows and the
\* active-style cache takes the shape's style; with an equal style nothing
\* changes.
C27_DroppedShapePushesStyle ==
    [][(IsAddStep /\ lastOp'.op # "addGift" /\ ~lastOp'.threw
          /\ ~OutsideViewport(CallBounds(lastOp'.call), viewport)
          /\ cmdDataIdx \div 4 + 4 > MAX_SHAPE_CMDS)
         => /\ ~lastOp'.ret
            /\ cmdDataIdx' = cmdDataIdx /\ cmdData' = cmdData /\ cmdsPerTile' = cmdsPerTile
            /\ IF <<stateColor, stateLineWidth, stateCorner>> # CallStyle(lastOp'.call)
               THEN /\ styleDataIdx' = StyleWriteIdx(styleDataIdx) + styleStep
                    /\ styleData'[styleDataIdx' - styleStep] = StyleRecord(lastOp'.call)
                    /\ stateChanges' = stateChanges + 1
                    /\ <<stateColor', stateLineWidth', stateCorner'>> = CallStyle(lastOp'.call)
               ELSE /\ styleDataIdx' = styleDataIdx /\ styleData' = styleData
                    /\ stateChanges' = stateChanges
                    /\ <<stateColor', stateLineWidth', stateCorner'>>
                          = <<stateColor, stateLineWidth, stateCorner>>]_vars

\* The shape region is full of oriented rectangles of colour B; a rectangle
\* of colour A was dropped and its style is the second record of the frame.
C27_Witness ==
    /\ frame.open
    /\ lastOp.op = "addRect" /\ ~lastOp.ret /\ ~lastOp.threw
    /\ cmdDataIdx \div 4 = MAX_SHAPE_CMDS
    /\ Len(cmdData) = 1 /\ cmdData[1].v.type = CMD_ORI_RECT
    /\ stateChanges = 2
    /\ styleDataIdx = styleDataStartIdx + 2 * styleStep
    /\ styleData[styleDataStartIdx + styleStep] = StyleRecord(lastOp.call)
    /\ stateColor = ColorA

\* The request list after a loaded handle that is not yet in it is requested.
Requested(list, h) ==
    IF h # NullTexture /\ ~InList(list, h) /\ ~InList(loadingTextureIDs, h)
    THEN Append(list, h) ELSE list

\* C28: addImage and addImageFromBundle request their texture before the
\* viewport cull: an image whose box is fully outside the viewport writes no
\* command (cursor, records and tile lists stay) but its loaded handle is
\* appended to the request list of its kind, and stays there, at its slot,
\* until draw().
C28_CulledImageRequestsTexture ==
    /\ [][(IsImageStep /\ OutsideViewport(CallBounds(lastOp'.call), viewport))
            => /\ ~lastOp'.ret /\ ~lastOp'.threw
               /\ cmdDataIdx' = cmdDataIdx /\ cmdData' = cmdData /\ cmdsPerTile' = cmdsPerTile
               /\ IF lastOp'.op = "addImage"
                  THEN /\ textureIDs' = Requested(textureIDs, lastOp'.call.a[5])
                       /\ textureBundleIDs' = textureBundleIDs
                  ELSE /\ textureBundleIDs' = Requested(textureBundleIDs, lastOp'.call.a[5])
                       /\ textureIDs' = textureIDs]_vars
    /\ [][lastOp'.op # "draw"
            => IsPrefix(textureIDs, textureIDs')
               /\ IsPrefix(textureBundleIDs, textureBundleIDs')]_vars

\* An image out of view was added in a frame: no command, one request.
C28_Witness ==
    /\ frame.open
    /\ lastOp.op = "addImage" /\ ~lastOp.ret /\ ~lastOp.threw
    /\ OutsideViewport(CallBounds(lastOp.call), viewport)
    /\ cmdData = <<>> /\ cmdDataIdx = 0
    /\ textureIDs = <<lastOp.call.a[5]>>
    /\ loadingTextureIDs = <<>>

\* The sum of the counts of the tile lists lo .. hi-1.
RECURSIVE CountsIn(_, _, _)
CountsIn(tiles, lo, hi) ==
    IF lo >= hi THEN 0
    ELSE IF lo + 1 = hi THEN tiles[lo][0]
    ELSE CountsIn(tiles, lo, (lo + hi) \div 2) + CountsIn(tiles, (lo + hi) \div 2, hi)

\* C29: draw() resets the command and style cursors but leaves the tile
\* lists as they are; only beginFrame() empties them.  After draw(), until
\* the next beginFrame(), a shape that is added is appended after the
\* entries of the previous frame, and a second draw() packs every entry of
\* the lists, those of the previous frame's commands included, although the
\* command buffer no longer holds them.
C29_StaleTileLists ==
    /\ [][(budget' = budget - 1 /\ lastOp'.op = "draw" /\ ~lastOp'.threw)
            => /\ cmdsPerTile' = cmdsPerTile
               /\ cmdDataIdx' = 0 /\ cmdData' = <<>>
               /\ styleDataIdx' = styleDataStartIdx
               /\ lastOp'.n = CountsIn(cmdsPerTile, 0, num_tiles_n)]_vars
    /\ [][IsBeginFrameStep
            => \A ti \in 0 .. num_tiles_n' - 1 :
                  cmdsPerTile'[ti] = Uint16Array(MAX_CMDS_PER_TILE)]_vars
    /\ [][(\E ti \in DOMAIN cmdsPerTile : cmdsPerTile'[ti][0] < cmdsPerTile[ti][0])
            => IsBeginFrameStep]_vars
    /\ [][(IsAddStep /\ ~frame.open /\ lastOp'.ret)
            => \A ti \in ClaimedTiles(CallBounds(lastOp'.call), num_tiles_x, num_tiles_y) :
                  /\ cmdsPerTile'[ti][0] = cmdsPerTile[ti][0] + 1
                  /\ \A i \in 1 .. Min(cmdsPerTile[ti][0], MAX_CMDS_PER_TILE - 1) :
                        cmdsPerTile'[ti][i] = cmdsPerTile[ti][i]]_vars

\* A frame of one rectangle was drawn, a second rectangle was added without
\* beginFrame() and draw() was called again: tile 0 lists both (each at
\* index 0 of its buffer) and the second draw() packed two indices.
C29_Witness ==
    /\ lastOp.op = "draw" /\ ~lastOp.threw
    /\ ~frame.open /\ RunsLen(frame.calls) = 1
    /\ cmdData = <<>>
    /\ cmdsPerTile[0][0] = 2
    /\ cmdsPerTile[0][1] = 0 /\ cmdsPerTile[0][2] = 0
    /\ lastOp.n = 2
    /\ RunsLen(tileCmds) >= 2


\* The slice images of bundle h whose load has neither completed nor failed.
SlicesInFlight(h) == {img \in images : img.tex = h /\ img.slice # -1}

\* A step in which a slice of bundle h completes its load.
IsSliceOnloadStep(h) ==
    /\ \E img \in SlicesInFlight(h) : img \notin images'
    /\ bundles'[h].loadedSlices = bundles[h].loadedSlices + 1

\* A step in which a slice of bundle h fails to load.
IsSliceErrorStep(h) ==
    /\ \E img \in SlicesInFlight(h) : img \notin images'
    /\ bundles' = bundles

\* A slice of bundle h has failed: fewer slices are loaded or loading than h has urls.
SliceFailed(h) == bundles[h].loadedSlices + Cardinality(SlicesInFlight(h)) < bundles[h].urls

\* A step that requests the bundle h with addImageFromBundle().
IsBundleRequest(h) ==
    IsImageStep /\ lastOp'.op = "addImageFromBundle" /\ lastOp'.call.a[5] = h

\* The redraw callback of loadImageBundle(): invoked by the onload of the slice
\* that makes loadedSlices equal to the number of urls and by no other slice,
\* in every order of the slice loads and in every state of the frame; never
\* once a slice has failed; and the handle is never in the loading set.
BundleCallback ==
    /\ [](\A h \in BundleHandles :
             /\ ~InList(loadingTextureIDs, h)
             /\ bundles[h].loadedSlices <= bundles[h].urls
             /\ SliceFailed(h) => bundles[h].loadedSlices < bundles[h].urls)
    /\ [](redraws = CompletedLoads)
    /\ [][\A h \in BundleHandles :
             /\ IsSliceOnloadStep(h)
                  => /\ redraws' = redraws + (IF bundles'[h].loadedSlices = bundles[h].urls
                                              THEN 1 ELSE 0)
                     /\ loadingTextureIDs' = loadingTextureIDs
                     /\ frame' = frame
             /\ IsSliceErrorStep(h)
                  => /\ redraws' = redraws
                     /\ SliceFailed(h)'
             /\ SliceFailed(h) => SliceFailed(h)']_vars
    /\ [][\A h \in BundleHandles :
             IsBundleRequest(h)
                => /\ InList(textureBundleIDs', h)
                   /\ ~InList(loadingTextureIDs', h)]_vars

\* C30 (as stated): the redraw callback of a bundle is invoked exactly once, at
\* its n-th slice load, and never if a slice fails; the handle is never in the
\* loading set, so a request of a bundle whose slices have not all loaded
\* registers it and writes a non-negative sampler index.
C30_Original ==
    /\ BundleCallback
    /\ [][\A h \in BundleHandles :
             (IsBundleRequest(h) /\ lastOp'.ret
                /\ bundles[h].loadedSlices < bundles[h].urls)
               => RunsLast(cmdData').params[1] >= 0]_vars

\* C30 (amended): as stated for the callback and the loading set; a request of
\* a bundle whose slices have not all loaded registers it and writes the same
\* sampler index as for a loaded bundle: never the loading placeholder -1,
\* either the error placeholder -2 or BUNDLE_SAMPLER_BASE plus the handle's
\* position in the list, and the latter whenever the list then holds fewer than
\* NUM_BUNDLE_SAMPLERS handles.
C30_BundleLoad ==
    /\ BundleCallback
    /\ [][\A h \in BundleHandles :
             (IsBundleRequest(h) /\ lastOp'.ret
                /\ bundles[h].loadedSlices < bundles[h].urls)
               => \A sampler \in {RunsLast(cmdData').params[1]} :
                     /\ sampler # -1
                     /\ sampler \in {-2, BUNDLE_SAMPLER_BASE + Position(textureBundleIDs', h)}
                     /\ Len(textureBundleIDs') < NUM_BUNDLE_SAMPLERS
                          => sampler = BUNDLE_SAMPLER_BASE + Position(textureBundleIDs', h)]_vars

\* A bundle of two urls, one slice loaded and one still loading and no callback
\* yet for it, has just been requested and its command carries the first
\* bundle sampler.
C30_Witness ==
    /\ lastOp.op = "addImageFromBundle" /\ lastOp.ret
    /\ \E h \in BundleHandles :
          /\ lastOp.call.a[5] = h
          /\ bundles[h].urls = 2 /\ bundles[h].loadedSlices = 1
          /\ Cardinality(SlicesInFlight(h)) = 1
          /\ textureBundleIDs = <<h>>
          /\ ~InList(loadingTextureIDs, h)
          /\ RunsLast(cmdData).params[1] = BUNDLE_SAMPLER_BASE
    /\ redraws = CompletedLoads

====
